---- MODULE Spec2Model ----
(***************************************************************************)
(* Model of the decoding engine and the TTN client of ttn-osem-integration:*)
(*   lib/decoding/helpers.js   bytesToInt, findSensorIds,                  *)
(*                             applyValueFromMeasurement                   *)
(*   lib/decoding/index.js     bufferToMeasurements, decodeBuffer          *)
(*   lib/ttn.js                onUplinkMessage, initMqtt, initApp, getApp, *)
(*                             getMqtt, getOrRegisterDevice                *)
(*                                                                         *)
(* JavaScript values are encoded as follows.                               *)
(*   - an optional value (a property that may be undefined) is a sequence: *)
(*     <<>> when undefined, <<v>> when it holds v;                         *)
(*   - a string that the code inspects character by character              *)
(*     (toLowerCase) is a sequence of one-character strings, so that the   *)
(*     empty string and an undefined property are both <<>> (both falsy);  *)
(*   - a 32 bit word, as the operators << and | see it, is a function      *)
(*     0..31 -> {0,1}, bit 0 the least significant.                        *)
(* The specifications of the module, one per unit of the code:             *)
(*   SpecBytes (bytesToInt), SpecMatch (findSensorIds),                    *)
(*   SpecHook (the hook returned by applyValueFromMeasurement),            *)
(*   Spec (decodeBuffer with bufferToMeasurements),                        *)
(*   SpecCalls (concurrent decodeBuffer calls),                            *)
(*   SpecClients (getApp, getMqtt of lib/ttn.js),                          *)
(*   SpecDevice (getOrRegisterDevice), SpecUplink (onUplinkMessage).       *)
(***************************************************************************)
EXTENDS Integers, Sequences, FiniteSets, TLC

VARIABLES
  \* bytesToInt
  bytes, intValue, bytesPc,
  \* findSensorIds
  sensors, sensorMatchings, sensorMap, matchPc,
  \* the onResult hook of applyValueFromMeasurement
  measurements, prevMeasurements, origMeasurements, hookArgs, hookCalls,
  \* decodeBuffer / bufferToMeasurements
  buffer, box, timestamp, pc, bufferTransformer, result, currByte, maskIdx,
  outcome,
  \* history of the decode call: the steps executed, the number of hook
  \* invocations that found a carrier, the measurements before stamping
  trace, carriersFound, preStamp,
  \* concurrent decodeBuffer calls
  calls, arrays,
  \* ttn.js: the module-level client promises, the promises created, the
  \* number of runs of initApp and initMqtt, the 'uplink' handlers
  \* registered, the promises the getters returned
  appClient, mqttClient, promises, initRuns, uplinkHandlers, returned,
  \* getOrRegisterDevice: the call and the devices known to the handler
  devCall, registry,
  \* onUplinkMessage: the handler invocations, the saveMeasurementsArray
  \* calls made, the log lines written
  handlers, saves, logs

bytesVars == <<bytes, intValue, bytesPc>>
matchVars == <<sensors, sensorMatchings, sensorMap, matchPc>>
hookVars == <<measurements, prevMeasurements, origMeasurements, hookArgs, hookCalls>>
decodeVars == <<buffer, box, timestamp, pc, bufferTransformer, result, currByte,
                maskIdx, outcome, trace, carriersFound, preStamp>>
callVars == <<calls, arrays>>
clientVars == <<appClient, mqttClient, promises, initRuns, uplinkHandlers, returned>>
deviceVars == <<devCall, registry>>
uplinkVars == <<handlers, saves, logs>>
decodingVars == <<bytesVars, matchVars, hookVars, decodeVars, callVars>>
ttnVars == <<clientVars, deviceVars, uplinkVars>>
extVars == <<callVars, ttnVars>>
vars == <<bytesVars, matchVars, hookVars, decodeVars, extVars>>

(***************************************************************************)
(* Bounds of the model.                                                    *)
(***************************************************************************)
MaxBytesLen == 4
MaxSensors == 2
MaxMeasurements == 5
MaxHookCalls == 2
MaxSegments == 3
MaxBufLen == 3
MaxGetterCalls == 3

\* All sequences over S of length lo..hi.
SeqsOf(S, lo, hi) == UNION {[1..n -> S] : n \in lo..hi}

(***************************************************************************)
(* 32 bit words: the operands of << and | (ECMAScript ToInt32).            *)
(***************************************************************************)
BitIdx == 0..31

\* Bit j of the non-negative integer n.
BitOf(n, j) == IF j > 30 THEN 0 ELSE (n \div (2 ^ j)) % 2

\* ToInt32 of a byte 0..255, as a word.
WordOfByte(b) == [j \in BitIdx |-> BitOf(b, j)]

ZeroWord == [j \in BitIdx |-> 0]

\* a << n : the shift count is taken modulo 32, bits shifted out are lost.
ShiftLeft(w, n) ==
  LET s == n % 32
  IN  [j \in BitIdx |-> IF j >= s THEN w[j - s] ELSE 0]

\* a | b
BitOr(a, b) == [j \in BitIdx |-> IF a[j] = 1 \/ b[j] = 1 THEN 1 ELSE 0]

RECURSIVE Low31(_, _)
Low31(w, j) == IF j > 30 THEN 0 ELSE w[j] * (2 ^ j) + Low31(w, j + 1)

\* The signed (two's complement) number a word stands for.
Int32(w) == IF w[31] = 1 THEN (Low31(w, 0) - 2147483647) - 1 ELSE Low31(w, 0)

(***************************************************************************)
(* helpers.js, bytesToInt: v = v | Number(bytes[i] << (i * 8)) for i = 0.. *)
(* TLA+ sequences start at 1: bytes[i] of the source is bytes[i + 1] here. *)
(***************************************************************************)
RECURSIVE BytesToIntLoop(_, _, _)
BytesToIntLoop(bs, i, v) ==
  IF i < Len(bs)
  THEN BytesToIntLoop(bs, i + 1, BitOr(v, ShiftLeft(WordOfByte(bs[i + 1]), i * 8)))
  ELSE v

bytesToInt(bs) == Int32(BytesToIntLoop(bs, 0, ZeroWord))

(***************************************************************************)
(* SpecBytes: bytesToInt applied to every input of the bounded set.        *)
(***************************************************************************)
ByteValues == {0, 1, 127, 128, 255}

IdleBytes == bytes = <<>> /\ intValue = 0 /\ bytesPc = "idle"
IdleMatch ==
  sensors = <<>> /\ sensorMatchings = <<>> /\ sensorMap = <<>> /\ matchPc = "idle"
IdleHook ==
  /\ measurements = <<>> /\ prevMeasurements = <<>> /\ origMeasurements = <<>>
  /\ hookArgs = <<>> /\ hookCalls = 0
IdleDecode ==
  /\ buffer = <<>> /\ box = <<>> /\ timestamp = <<>> /\ pc = "idle"
  /\ bufferTransformer = <<>> /\ result = <<>> /\ currByte = 0 /\ maskIdx = 0
  /\ outcome = <<>> /\ trace = <<>> /\ carriersFound = 0 /\ preStamp = <<>>

IdleCalls == calls = <<>> /\ arrays = <<>>
IdleClients ==
  /\ appClient = <<>> /\ mqttClient = <<>> /\ promises = <<>>
  /\ initRuns = [app |-> 0, mqtt |-> 0] /\ uplinkHandlers = 0 /\ returned = <<>>
IdleDevice == devCall = <<>> /\ registry = {}
IdleUplink == handlers = <<>> /\ saves = <<>> /\ logs = <<>>
IdleTtn == IdleClients /\ IdleDevice /\ IdleUplink
IdleExt == IdleCalls /\ IdleTtn

InitBytes ==
  /\ bytes \in SeqsOf(ByteValues, 1, MaxBytesLen)
  /\ intValue = 0
  /\ bytesPc = "start"
  /\ IdleMatch /\ IdleHook /\ IdleDecode /\ IdleExt

BytesToIntCall ==
  /\ bytesPc = "start"
  /\ intValue' = bytesToInt(bytes)
  /\ bytesPc' = "done"
  /\ UNCHANGED <<bytes, matchVars, hookVars, decodeVars, extVars>>

NextBytes == BytesToIntCall

SpecBytes == InitBytes /\ [][NextBytes]_vars

\* Byte i (from 0) of the base-256 expansion of the non-negative integer n.
Digit256(n, i) == (n \div (256 ^ i)) % 256

\* n is the little-endian value of bs: n = sum of bs[i+1] * 2^(8i), stated on
\* the base-256 digits of n so that no number beyond 2^31 - 1 is computed.
IsLittleEndianValue(n, bs) ==
  /\ n >= 0
  /\ \A i \in 0..(Len(bs) - 1) : i <= 3 => Digit256(n, i) = bs[i + 1]
  /\ Len(bs) < 4 => n < 256 ^ Len(bs)

\* C8: for every byte sequence of length 1 to 4, bytesToInt returns the
\* non-negative little-endian value sum of byte[i] * 2^(8i), without sign
\* extension, identically for all four lengths.
C8_LittleEndianUnsigned ==
  (bytesPc = "done" /\ Len(bytes) <= 4) => IsLittleEndianValue(intValue, bytes)

\* The part of C8 the code does satisfy: every input of at most 31
\* significant bits (length 1 to 3, or a fourth byte below 0x80).
C8_HoldsBelowSignBit ==
  (bytesPc = "done" /\ Len(bytes) <= 4 /\ (Len(bytes) = 4 => bytes[4] < 128))
    => IsLittleEndianValue(intValue, bytes)

\* The examples of C8: [0x01] -> 1, [0xFF, 0x00] -> 255, [0x00, 0x01] -> 256.
C8_Examples ==
  bytesPc = "done" =>
    /\ bytes = <<1>> => intValue = 1
    /\ bytes = <<255, 0>> => intValue = 255
    /\ bytes = <<0, 1>> => intValue = 256

(***************************************************************************)
(* helpers.js, findSensorIds.                                              *)
(* A JavaScript object iterated with for..in is a sequence of              *)
(* [key, val] pairs in definition order (the keys are property names such  *)
(* as title or type, none of them an integer index).                       *)
(***************************************************************************)
\* String.prototype.toLowerCase on one character of the model's alphabet.
LowerChar(c) ==
  CASE c = "A" -> "a" [] c = "B" -> "b" [] c = "C" -> "c" [] c = "D" -> "d"
    [] c = "E" -> "e" [] c = "F" -> "f" [] c = "G" -> "g" [] c = "H" -> "h"
    [] c = "I" -> "i" [] c = "J" -> "j" [] c = "K" -> "k" [] c = "L" -> "l"
    [] c = "M" -> "m" [] c = "N" -> "n" [] c = "O" -> "o" [] c = "P" -> "p"
    [] c = "Q" -> "q" [] c = "R" -> "r" [] c = "S" -> "s" [] c = "T" -> "t"
    [] c = "U" -> "u" [] c = "V" -> "v" [] c = "W" -> "w" [] c = "X" -> "x"
    [] c = "Y" -> "y" [] c = "Z" -> "z" [] OTHER -> c

toLowerCase(str) == [i \in 1..Len(str) |-> LowerChar(str[i])]

\* Array.prototype.includes
Includes(arr, x) == \E i \in 1..Len(arr) : arr[i] = x

\* sensorMap[phenomenon] = id
PutKey(map, k, v) == [r \in (DOMAIN map) \cup {k} |-> IF r = k THEN v ELSE map[r]]

\* for (const sensor of sensors): the id of the first sensor, from index i,
\* whose property sensorProp is truthy and, lowercased, is one of aliases;
\* <<>> when the loop ends without a match (foundIt stays false).
RECURSIVE ScanSensors(_, _, _, _)
ScanSensors(ss, i, sensorProp, aliases) ==
  IF i > Len(ss) THEN <<>>
  ELSE IF ss[i][sensorProp] = <<>> THEN ScanSensors(ss, i + 1, sensorProp, aliases)
  ELSE IF Includes(aliases, toLowerCase(ss[i][sensorProp])) THEN <<ss[i]._id>>
  ELSE ScanSensors(ss, i + 1, sensorProp, aliases)

\* for (const sensorProp in sensorMatchings[phenomenon]): the properties are
\* tried from index j in definition order; the first one that matches a
\* sensor ends the loop (if (foundIt) break).
\* A plausible slip: the loops nested the other way round, sensors outside
\* and properties inside, so that an earlier sensor matching a later property
\* wins over a later sensor matching an earlier property.
ScanProps_sensorsOutside(ss, props, j) ==
  LET AliasesOf(q) == [a \in 1..Len(props[q].val) |-> toLowerCase(props[q].val[a])]
      Hit(i, q) == ss[i][props[q].key] # <<>>
                   /\ Includes(AliasesOf(q), toLowerCase(ss[i][props[q].key]))
      hits == {i \in 1..Len(ss) : \E q \in j..Len(props) : Hit(i, q)}
  IN  IF hits = {} THEN <<>>
      ELSE <<ss[CHOOSE i \in hits : \A k \in hits : i <= k]._id>>

RECURSIVE ScanProps(_, _, _)
ScanProps(ss, props, j) ==
  IF j > Len(props) THEN <<>>
  ELSE LET aliases == [a \in 1..Len(props[j].val) |-> toLowerCase(props[j].val[a])]
           found == ScanSensors(ss, 1, props[j].key, aliases)
       IN  IF found # <<>> THEN found ELSE ScanProps(ss, props, j + 1)

\* A plausible slip: a role without a match is stored with an empty id
\* instead of being left out.
RECURSIVE FindSensorIdsLoop_keepsUnmatched(_, _, _, _)
FindSensorIdsLoop_keepsUnmatched(ss, matchings, p, map) ==
  IF p > Len(matchings) THEN map
  ELSE LET found == ScanProps(ss, matchings[p].val, 1)
       IN  FindSensorIdsLoop_keepsUnmatched(ss, matchings, p + 1,
             PutKey(map, matchings[p].key, IF found # <<>> THEN found[1] ELSE ""))

\* for (const phenomenon in sensorMatchings), from index p.
RECURSIVE FindSensorIdsLoop(_, _, _, _)
FindSensorIdsLoop(ss, matchings, p, map) ==
  IF p > Len(matchings) THEN map
  ELSE LET found == ScanProps(ss, matchings[p].val, 1)
       IN  FindSensorIdsLoop(ss, matchings, p + 1,
             IF found # <<>> THEN PutKey(map, matchings[p].key, found[1]) ELSE map)

findSensorIds(ss, matchings) == FindSensorIdsLoop(ss, matchings, 1, <<>>)

(***************************************************************************)
(* SpecMatch: findSensorIds applied to every input of the bounded set.     *)
(***************************************************************************)
StrHumidity == <<"H", "u", "m", "i", "d", "i", "t", "y">>
StrPressure == <<"P", "r", "e", "s", "s", "u", "r", "e">>
StrHDC == <<"H", "D", "C">>
strhumidity == <<"h", "u", "m", "i", "d", "i", "t", "y">>
strtemp == <<"t", "e", "m", "p">>
strluftdruck == <<"l", "u", "f", "t", "d", "r", "u", "c", "k">>
STRPRESSURE == <<"P", "R", "E", "S", "S", "U", "R", "E">>
strhdc == <<"h", "d", "c">>
strbmp == <<"b", "m", "p">>

\* The i-th sensor of a box has the i-th identifier: identifiers are unique.
SensorIdAt == <<"a", "b", "c", "d">>
TitleValues == {<<>>, StrHumidity, StrPressure}
TypeValues == {<<>>, StrHDC}
SensorLists ==
  UNION { { [i \in 1..n |-> [_id |-> SensorIdAt[i], title |-> t[i], type |-> y[i]]] :
              t \in [1..n -> TitleValues], y \in [1..n -> TypeValues] } :
          n \in 0..MaxSensors }

TitleAliases == {<<strhumidity>>, <<strtemp>>, <<strluftdruck, STRPRESSURE>>}
TypeAliases == {<<strhdc>>, <<strbmp>>}
\* The property matchings of one role: title, type, or both in either order.
PropMatchings ==
  LET T == {[key |-> "title", val |-> a] : a \in TitleAliases}
      Y == {[key |-> "type", val |-> a] : a \in TypeAliases}
  IN  {<<t>> : t \in T} \cup {<<y>> : y \in Y}
        \cup {<<t, y>> : t \in T, y \in Y} \cup {<<y, t>> : t \in T, y \in Y}
MatchingSpecs ==
  LET H == {[key |-> "humidity", val |-> m] : m \in PropMatchings}
      P == {[key |-> "temperature", val |-> m] : m \in PropMatchings}
  IN  {<<>>} \cup {<<h>> : h \in H} \cup {<<q>> : q \in P}
        \cup {<<h, q>> : h \in H, q \in P}

InitMatch ==
  /\ sensors \in SensorLists
  /\ sensorMatchings \in MatchingSpecs
  /\ sensorMap = <<>>
  /\ matchPc = "start"
  /\ IdleBytes /\ IdleHook /\ IdleDecode /\ IdleExt

FindSensorIdsCall ==
  /\ matchPc = "start"
  /\ sensorMap' = findSensorIds(sensors, sensorMatchings)
  /\ matchPc' = "done"
  /\ UNCHANGED <<sensors, sensorMatchings, bytesVars, hookVars, decodeVars, extVars>>

NextMatch == FindSensorIdsCall

SpecMatch == InitMatch /\ [][NextMatch]_vars

\* Sensor s carries property prop and its value equals one of the aliases,
\* letter case ignored.
Matches(s, prop, aliases) ==
  /\ s[prop] # <<>>
  /\ \E a \in 1..Len(aliases) : toLowerCase(aliases[a]) = toLowerCase(s[prop])

\* The indices of the properties of a role that some sensor matches.
MatchingProps(ss, props) ==
  {j \in 1..Len(props) : \E i \in 1..Len(ss) : Matches(ss[i], props[j].key, props[j].val)}

Least(S) == CHOOSE x \in S : \A y \in S : x <= y

\* C6: first-match-wins, attribute order before sensor order: a role maps to
\* the first sensor (in sensor order) that matches the first attribute (in
\* the role's definition order) matched by any sensor; later attributes are
\* not consulted.
C6_FirstMatchWins ==
  matchPc = "done" =>
    \A p \in 1..Len(sensorMatchings) :
      LET props == sensorMatchings[p].val
          js == MatchingProps(sensors, props)
      IN  js # {} =>
            LET j0 == Least(js)
                i0 == Least({i \in 1..Len(sensors) :
                               Matches(sensors[i], props[j0].key, props[j0].val)})
            IN  /\ sensorMatchings[p].key \in DOMAIN sensorMap
                /\ sensorMap[sensorMatchings[p].key] = sensors[i0]._id

\* A role whose first attribute is matched by the second sensor only, while
\* the first sensor matches the role's second attribute: the second sensor wins.
C6_Witness ==
  /\ matchPc = "done"
  /\ Len(sensors) = 2
  /\ \E p \in 1..Len(sensorMatchings) :
       LET props == sensorMatchings[p].val
       IN  /\ Len(props) = 2
           /\ ~Matches(sensors[1], props[1].key, props[1].val)
           /\ Matches(sensors[2], props[1].key, props[1].val)
           /\ Matches(sensors[1], props[2].key, props[2].val)
           /\ sensorMap[sensorMatchings[p].key] = "b"

ExampleSensors ==
  << [_id |-> "a", title |-> StrHumidity, type |-> <<>>],
     [_id |-> "b", title |-> StrPressure, type |-> <<>>] >>
ExampleMatchings ==
  << [key |-> "humidity", val |-> <<[key |-> "title", val |-> <<strhumidity>>]>>],
     [key |-> "temperature", val |-> <<[key |-> "title", val |-> <<strtemp>>]>>] >>

\* C7: the keys of the result are exactly the roles for which some
\* (attribute, sensor) pair matches; unmatched roles are absent and sensors
\* lacking the attribute are skipped; the example of the specification
\* yields {humidity: 'a'}.
C7_UnmatchedRolesOmitted ==
  matchPc = "done" =>
    /\ DOMAIN sensorMap =
         {sensorMatchings[p].key : p \in
            {q \in 1..Len(sensorMatchings) :
               MatchingProps(sensors, sensorMatchings[q].val) # {}}}
    /\ (sensors = ExampleSensors /\ sensorMatchings = ExampleMatchings)
         => (DOMAIN sensorMap = {"humidity"} /\ sensorMap["humidity"] = "a")

\* The example of C7 has been evaluated: temperature is absent.
C7_Witness ==
  /\ matchPc = "done"
  /\ sensors = ExampleSensors
  /\ sensorMatchings = ExampleMatchings
  /\ "temperature" \notin DOMAIN sensorMap

(***************************************************************************)
(* helpers.js, applyValueFromMeasurement: the onResult hook it returns.    *)
(* A measurement is a record; the properties a hook may set (createdAt,    *)
(* location) are optional values, <<>> while unset.                        *)
(***************************************************************************)
HookProperties == {"createdAt", "location"}

Measurement(id, v) == [sensor_id |-> id, value |-> v, createdAt |-> <<>>, location |-> <<>>]

\* The optional transformer function of a hook: none, or a function of the
\* value (here: the successor).
Transformers == {"none", "inc"}

\* A plausible slip: the transformer is not applied.
TransformedValue_ignored(transformer, v) == v

\* transformer ? transformer(value) : value
TransformedValue(transformer, v) == IF transformer = "none" THEN v ELSE v + 1

\* A plausible slip: the array is searched from its end, so the last
\* carrier is the one found.
FindCarrier_fromEnd(ms, k, sensorId) ==
  IF \E i \in k..Len(ms) : ms[i].sensor_id = sensorId
  THEN CHOOSE i \in k..Len(ms) :
         /\ ms[i].sensor_id = sensorId
         /\ \A j \in k..Len(ms) : ms[j].sensor_id = sensorId => j <= i
  ELSE 0

\* for (let k = 0; ...) if (measurements[k].sensor_id === sensorId): the
\* first index from k whose entry has the carrier id, 0 when there is none.
RECURSIVE FindCarrier(_, _, _)
FindCarrier(ms, k, sensorId) ==
  IF k > Len(ms) THEN 0
  ELSE IF ms[k].sensor_id = sensorId THEN k
  ELSE FindCarrier(ms, k + 1, sensorId)

\* A plausible slip: the entry after the carrier is removed instead.
Splice_offByOne(ms, k) ==
  IF k < Len(ms) THEN SubSeq(ms, 1, k) \o SubSeq(ms, k + 2, Len(ms))
  ELSE SubSeq(ms, 1, k - 1)

\* measurements.splice(k, 1)
Splice(ms, k) == SubSeq(ms, 1, k - 1) \o SubSeq(ms, k + 1, Len(ms))

\* A plausible slip: the loop steps over a later carrier and goes on
\* annotating the entries that follow it.
RECURSIVE Annotate_pastNextCarrier(_, _, _, _, _)
Annotate_pastNextCarrier(ms, k, sensorId, property, value) ==
  IF k > Len(ms) THEN ms
  ELSE IF ms[k].sensor_id = sensorId
  THEN Annotate_pastNextCarrier(ms, k + 1, sensorId, property, value)
  ELSE Annotate_pastNextCarrier([ms EXCEPT ![k][property] = <<value>>], k + 1,
                                sensorId, property, value)

\* while (measurements[k] && measurements[k].sensor_id !== sensorId)
\*   measurements[k++][property] = value
RECURSIVE Annotate(_, _, _, _, _)
Annotate(ms, k, sensorId, property, value) ==
  IF k <= Len(ms) /\ ms[k].sensor_id # sensorId
  THEN Annotate([ms EXCEPT ![k][property] = <<value>>], k + 1, sensorId, property, value)
  ELSE ms

\* A plausible slip: every entry with the carrier id is removed, not only
\* the first one.
applyValueFromMeasurement_removesAllCarriers(args, ms) ==
  LET k == FindCarrier(ms, 1, args.sensorId)
      RECURSIVE Keep(_)
      Keep(q) == IF q = <<>> THEN <<>>
                 ELSE IF Head(q).sensor_id = args.sensorId THEN Keep(Tail(q))
                 ELSE <<Head(q)>> \o Keep(Tail(q))
  IN  IF k = 0 THEN ms
      ELSE Annotate(Keep(ms), k, args.sensorId, args.property,
                    TransformedValue(args.transformer, ms[k].value))

\* The hook: the array after one invocation on ms.
applyValueFromMeasurement(args, ms) ==
  LET k == FindCarrier(ms, 1, args.sensorId)
  IN  IF k = 0 THEN ms
      ELSE Annotate(Splice(ms, k), k, args.sensorId, args.property,
                    TransformedValue(args.transformer, ms[k].value))

(***************************************************************************)
(* SpecHook: one hook invoked, up to MaxHookCalls times, on every          *)
(* measurement array of the bounded set.                                   *)
(***************************************************************************)
HookEntries ==
  {Measurement("t", 100), Measurement("t", 200), Measurement("x", 5),
   Measurement("x", 6), Measurement("y", 5), Measurement("y", 6)}

HookArgsSet == [sensorId : {"t"}, property : HookProperties, transformer : Transformers]

InitHook ==
  /\ measurements \in SeqsOf(HookEntries, 0, MaxMeasurements)
  /\ origMeasurements = measurements
  /\ prevMeasurements = measurements
  /\ hookArgs \in HookArgsSet
  /\ hookCalls = 0
  /\ IdleBytes /\ IdleMatch /\ IdleDecode /\ IdleExt

InvokeHook ==
  /\ hookArgs # <<>>
  /\ hookCalls < MaxHookCalls
  /\ prevMeasurements' = measurements
  /\ measurements' = applyValueFromMeasurement(hookArgs, measurements)
  /\ hookCalls' = hookCalls + 1
  /\ UNCHANGED <<origMeasurements, hookArgs, bytesVars, matchVars, decodeVars, extVars>>

NextHook == InvokeHook

SpecHook == InitHook /\ [][NextHook]_vars

\* Indices of the carrier entries of ms.
CarrierIdx(ms, sensorId) == {i \in 1..Len(ms) : ms[i].sensor_id = sensorId}

\* The value the hook stamps when the carrier is ms[k].
StampOf(args, ms, k) ==
  IF args.transformer = "none" THEN ms[k].value ELSE ms[k].value + 1

\* The example of C3: [t:100, x:5, t:200, y:6], carrier 't', attribute createdAt.
C3_Input ==
  <<Measurement("t", 100), Measurement("x", 5), Measurement("t", 200), Measurement("y", 6)>>
C3_Args == [sensorId |-> "t", property |-> "createdAt", transformer |-> "none"]
C3_Case == hookCalls = 1 /\ prevMeasurements = C3_Input /\ hookArgs = C3_Args

\* C3 as stated: one invocation on a sequence with more than one carrier
\* removes the first carrier, keeps the second, and stamps the first
\* carrier's value on the entries between the carriers and on the entries
\* after the second carrier; the example becomes
\* [x:5 createdAt 100, t:200, y:6 createdAt 100].
C3_StampsPastSecondCarrier ==
  /\ C3_Case =>
       measurements =
         << [Measurement("x", 5) EXCEPT !.createdAt = <<100>>],
            Measurement("t", 200),
            [Measurement("y", 6) EXCEPT !.createdAt = <<100>>] >>
  /\ hookCalls >= 1 =>
       LET cs == CarrierIdx(prevMeasurements, hookArgs.sensorId)
       IN  Cardinality(cs) > 1 =>
             LET k == Least(cs)
                 n == Least(cs \ {k})
             IN  \A j \in (k + 1)..Len(prevMeasurements) :
                   j # n /\ prevMeasurements[j].sensor_id # hookArgs.sensorId =>
                     measurements[j - 1][hookArgs.property]
                       = <<StampOf(hookArgs, prevMeasurements, k)>>

\* C3 (amended): one invocation on a sequence with more than one carrier
\* removes the first carrier, keeps the second carrier in place, stamps the
\* first carrier's value on the entries between the two carriers only, and
\* leaves the attribute of every entry after the second carrier as it was;
\* the example becomes [x:5 createdAt 100, t:200, y:6].
C3_StopsAtSecondCarrier ==
  /\ C3_Case =>
       measurements =
         << [Measurement("x", 5) EXCEPT !.createdAt = <<100>>],
            Measurement("t", 200),
            Measurement("y", 6) >>
  /\ hookCalls >= 1 =>
       LET cs == CarrierIdx(prevMeasurements, hookArgs.sensorId)
       IN  Cardinality(cs) > 1 =>
             LET k == Least(cs)
                 n == Least(cs \ {k})
             IN  /\ Len(measurements) = Len(prevMeasurements) - 1
                 /\ measurements[n - 1] = prevMeasurements[n]
                 /\ \A j \in (k + 1)..(n - 1) :
                      measurements[j - 1][hookArgs.property]
                        = <<StampOf(hookArgs, prevMeasurements, k)>>
                 /\ \A j \in (n + 1)..Len(prevMeasurements) :
                      measurements[j - 1] = prevMeasurements[j]

\* The example of C3 after its single invocation.
C3_Witness == C3_Case /\ Len(measurements) = 3

\* C4: one invocation sets the attribute, to transform(value) or to the
\* carrier's value, on exactly the entries after the first carrier and before
\* the next entry with the carrier id (or the end); entries before the first
\* carrier, the next carrier and all entries after it keep their attribute;
\* a carrier that is the last entry is removed and nothing is annotated.
C4_AnnotatesUntilNextCarrier ==
  hookCalls >= 1 =>
    LET prev == prevMeasurements
        cs == CarrierIdx(prev, hookArgs.sensorId)
    IN  cs # {} =>
          LET k == Least(cs)
              n == IF cs \ {k} = {} THEN Len(prev) + 1 ELSE Least(cs \ {k})
              v == IF hookArgs.transformer = "none"
                   THEN prev[k].value ELSE prev[k].value + 1
          IN  /\ Len(measurements) = Len(prev) - 1
              /\ \A j \in 1..Len(prev) :
                   j # k =>
                     LET m == measurements[IF j < k THEN j ELSE j - 1]
                     IN  /\ m[hookArgs.property] =
                              IF k < j /\ j < n THEN <<v>> ELSE prev[j][hookArgs.property]
                         /\ \A q \in HookProperties \ {hookArgs.property} :
                              m[q] = prev[j][q]
              /\ k = Len(prev) => measurements = SubSeq(prev, 1, k - 1)

\* An invocation with a transformer on a sequence with an entry before the
\* first carrier, an entry between two carriers and an entry after the
\* second carrier.
C4_Witness ==
  /\ hookCalls = 1
  /\ hookArgs.transformer = "inc"
  /\ Len(prevMeasurements) = 5
  /\ CarrierIdx(prevMeasurements, hookArgs.sensorId) = {2, 4}
  /\ measurements[2][hookArgs.property] = <<prevMeasurements[2].value + 1>>
  /\ measurements[4][hookArgs.property] = <<>>

\* A carrier that is the last entry: removed, nothing annotated.
C4_WitnessCarrierLast ==
  /\ hookCalls = 1
  /\ CarrierIdx(prevMeasurements, hookArgs.sensorId) = {Len(prevMeasurements)}
  /\ Len(prevMeasurements) = 3
  /\ measurements = SubSeq(prevMeasurements, 1, 2)

\* The sensor_id and value of every entry, in order.
Core(ms) == [i \in 1..Len(ms) |-> <<ms[i].sensor_id, ms[i].value>>]

\* C5: an invocation never reorders, adds or alters sensor_id or value: the
\* sequence afterwards is the sequence before with exactly the first carrier
\* removed, the rest in order; without a carrier it is unchanged.
C5_OnlyFirstCarrierRemoved ==
  hookCalls >= 1 =>
    LET cs == CarrierIdx(prevMeasurements, hookArgs.sensorId)
    IN  IF cs = {}
        THEN measurements = prevMeasurements
        ELSE LET k == Least(cs)
                 before == Core(prevMeasurements)
             IN  Core(measurements) =
                   [i \in 1..(Len(before) - 1) |-> IF i < k THEN before[i] ELSE before[i + 1]]

\* An invocation that removed the first of two carriers, with other entries
\* on both sides of it.
C5_Witness ==
  /\ hookCalls = 1
  /\ Len(prevMeasurements) = 4
  /\ CarrierIdx(prevMeasurements, hookArgs.sensorId) = {2, 3}
  /\ Len(measurements) = 3
  /\ measurements[2].sensor_id = hookArgs.sensorId

\* An invocation on a sequence without a carrier: a no-op.
C5_WitnessNoCarrier ==
  /\ hookCalls = 1
  /\ Len(prevMeasurements) = 3
  /\ CarrierIdx(prevMeasurements, hookArgs.sensorId) = {}
  /\ measurements = prevMeasurements

(***************************************************************************)
(* decoding/index.js: decodeBuffer and bufferToMeasurements.               *)
(*                                                                         *)
(* The body of decodeBuffer is one synchronous callback; pc is its         *)
(* position. Each action below is one statement (or one loop iteration) of *)
(* it, taken in the order of the source; trace records the steps executed. *)
(* A throw rejects the promise decodeBuffer returned: outcome becomes      *)
(* rejected and the callback is over (pc = "done"). The callback ends with *)
(* the call of the validator (pc = "validating"); the promise the          *)
(* validator returned settles in a later turn of the event loop.           *)
(***************************************************************************)
\* const profiles = { 'debug': ..., 'lora-serialization': ..., 'sensebox/home': ... }
profiles == {"debug", "lora-serialization", "sensebox/home"}

\* profiles is an object literal: profiles[name] also finds the properties
\* it inherits from Object.prototype, which are functions or objects
\* (truthy) without a createBufferTransformer.
InheritedNames ==
  {"constructor", "__proto__", "hasOwnProperty", "isPrototypeOf",
   "propertyIsEnumerable", "toLocaleString", "toString", "valueOf",
   "__defineGetter__", "__defineSetter__", "__lookupGetter__", "__lookupSetter__"}

\* profiles[name]: a profile module, an inherited property, or undefined.
ProfileLookup(name) ==
  IF name \in profiles THEN "profile"
  ELSE IF name \in InheritedNames THEN "inherited"
  ELSE "undefined"

ErrNoConfig == "box has no TTN configuration"
ErrProfile == "profile is not supported"
ErrLength == "incorrect amount of bytes"
ErrValidation == "validation failed"
\* TypeError: profile.createBufferTransformer is not a function
ErrTypeError == "TypeError"

Pending == [state |-> "pending", error |-> "", detail |-> <<>>, measurements |-> <<>>]
Rejected(err, d) == [state |-> "rejected", error |-> err, detail |-> d, measurements |-> <<>>]
Resolved(ms) == [state |-> "resolved", error |-> "", detail |-> <<>>, measurements |-> ms]

\* The value transformAndValidateArray resolves with for the measurements
\* ms. The validator belongs to another package: its value is kept as a term
\* of its argument and nothing is assumed of it but that it depends on
\* the measurements only.
ValidatorValue(ms) == <<[validated |-> ms]>>

\* JavaScript truthiness of an optional number or string: undefined, 0 and
\* the empty string are falsy.
Truthy(opt) == opt # <<>> /\ opt[1] # 0

\* A plausible slip: only box.integrations is tested.
HasNoTtnConfig_integrationsOnly(b) == b.integrations = <<>>

\* !box.integrations || !box.integrations.ttn
HasNoTtnConfig(b) == b.integrations = <<>> \/ b.integrations[1].ttn = <<>>

\* box.integrations.ttn.profile (undefined when the ttn block is missing)
ProfileNameOf(b) ==
  IF b.integrations = <<>> \/ b.integrations[1].ttn = <<>> THEN "undefined"
  ELSE b.integrations[1].ttn[1].profile

\* profile.createBufferTransformer(box): the profile modules are pure
\* functions of the box; the segments they build are carried by the box.
createBufferTransformer(b) == b.segments

\* for (const mask of bufferTransformer) maskLength = maskLength + mask.bytes
RECURSIVE MaskLength(_, _)
MaskLength(bt, i) == IF i > Len(bt) THEN 0 ELSE bt[i].bytes + MaskLength(bt, i + 1)

\* A plausible slip: the end of the slice is taken as inclusive, so that a
\* segment also reads the first byte of the next one.
BufferSlice_endInclusive(buf, start, end) ==
  SubSeq(buf, start + 1, IF end + 1 < Len(buf) THEN end + 1 ELSE Len(buf))

\* buffer.slice(start, end): bytes start .. end - 1 (from 0), clamped to the
\* buffer.
BufferSlice(buf, start, end) ==
  SubSeq(buf, start + 1, IF end < Len(buf) THEN end ELSE Len(buf))

\* A plausible slip: the first measurement is not looked at.
ShouldStamp_ignoresFirst(ts, ms) == Truthy(ts) /\ Len(ms) # 0

\* timestamp && measurements.length && !measurements[0].createdAt
ShouldStamp(ts, ms) == Truthy(ts) /\ Len(ms) # 0 /\ ~Truthy(ms[1].createdAt)

\* A plausible slip: each measurement is tested on its own, and only those
\* without a createdAt are stamped.
StampAll_onlyMissing(ts, ms) ==
  [i \in 1..Len(ms) |-> IF Truthy(ms[i].createdAt) THEN ms[i]
                        ELSE [ms[i] EXCEPT !.createdAt = ts]]

\* measurements.map(m => { m.createdAt = timestamp; return m; })
StampAll(ts, ms) == [i \in 1..Len(ms) |-> [ms[i] EXCEPT !.createdAt = ts]]

(***************************************************************************)
(* Spec: one decodeBuffer call on every input of the bounded set.          *)
(***************************************************************************)
BufferBytes == {0, 1}

\* The onResult hook of a segment: none, or the hook made by
\* applyValueFromMeasurement for carrier 't' and property createdAt.
CarrierHook == [sensorId |-> "t", property |-> "createdAt", transformer |-> "none"]

\* Segment descriptors: byte length, sensor id, onResult (optional).
Masks ==
  {[bytes |-> n, sensorId |-> "t", onResult |-> h] : n \in {1, 2}, h \in {<<>>, <<CarrierHook>>}}
    \cup {[bytes |-> 1, sensorId |-> "x", onResult |-> h] : h \in {<<>>, <<CarrierHook>>}}

Integrations ==
  {<<>>, <<[ttn |-> <<>>]>>,
   <<[ttn |-> <<[profile |-> "lora-serialization"]>>]>>,
   <<[ttn |-> <<[profile |-> "cayenne"]>>]>>,
   <<[ttn |-> <<[profile |-> "constructor"]>>]>>}

Boxes == [integrations : Integrations, segments : SeqsOf(Masks, 0, MaxSegments)]

Timestamps == {<<>>, <<999>>}

Init ==
  /\ buffer \in SeqsOf(BufferBytes, 0, MaxBufLen)
  /\ box \in Boxes
  /\ timestamp \in Timestamps
  /\ pc = "config"
  /\ bufferTransformer = <<>>
  /\ result = <<>>
  /\ currByte = 0
  /\ maskIdx = 0
  /\ outcome = Pending
  /\ trace = <<>>
  /\ carriersFound = 0
  /\ preStamp = <<>>
  /\ IdleBytes /\ IdleMatch /\ IdleHook /\ IdleExt

Throw(err, d) == outcome' = Rejected(err, d) /\ pc' = "done"

otherVars == <<bytesVars, matchVars, hookVars, extVars>>

\* if (!box.integrations || !box.integrations.ttn) throw ...
CheckConfig ==
  /\ pc = "config"
  /\ trace' = Append(trace, "config")
  /\ IF HasNoTtnConfig(box)
     THEN Throw(ErrNoConfig, <<>>)
     ELSE pc' = "profile" /\ UNCHANGED outcome
  /\ UNCHANGED <<buffer, box, timestamp, bufferTransformer, result, currByte,
                 maskIdx, carriersFound, preStamp, otherVars>>

\* const profile = profiles[...]; if (!profile) throw ...
LookupProfile ==
  /\ pc = "profile"
  /\ trace' = Append(trace, "profile")
  /\ IF ProfileLookup(ProfileNameOf(box)) = "undefined"
     THEN Throw(ErrProfile, <<ProfileNameOf(box)>>)
     ELSE pc' = "build" /\ UNCHANGED outcome
  /\ UNCHANGED <<buffer, box, timestamp, bufferTransformer, result, currByte,
                 maskIdx, carriersFound, preStamp, otherVars>>

\* const bufferTransformer = profile.createBufferTransformer(box): a
\* TypeError when profile is an inherited property of profiles.
BuildTransformer ==
  /\ pc = "build"
  /\ trace' = Append(trace, "build")
  /\ IF ProfileLookup(ProfileNameOf(box)) = "inherited"
     THEN Throw(ErrTypeError, <<>>) /\ UNCHANGED bufferTransformer
     ELSE /\ bufferTransformer' = createBufferTransformer(box)
          /\ pc' = "length" /\ UNCHANGED outcome
  /\ UNCHANGED <<buffer, box, timestamp, result, currByte, maskIdx,
                 carriersFound, preStamp, otherVars>>

\* A plausible slip: the length is not checked before decoding; the segments
\* are decoded from whatever bytes there are.
CheckLength_skipped ==
  /\ pc = "length"
  /\ trace' = Append(trace, "length")
  /\ result' = <<>> /\ currByte' = 0 /\ maskIdx' = 1
  /\ pc' = "decode" /\ UNCHANGED outcome
  /\ UNCHANGED <<buffer, box, timestamp, bufferTransformer, carriersFound,
                 preStamp, otherVars>>

\* bufferToMeasurements: const result = []; maskLength = sum of mask.bytes;
\* if (maskLength !== buffer.length) throw ...
CheckLength ==
  /\ pc = "length"
  /\ trace' = Append(trace, "length")
  /\ result' = <<>> /\ currByte' = 0 /\ maskIdx' = 1
  /\ IF MaskLength(bufferTransformer, 1) # Len(buffer)
     THEN Throw(ErrLength, <<MaskLength(bufferTransformer, 1)>>)
     ELSE pc' = "decode" /\ UNCHANGED outcome
  /\ UNCHANGED <<buffer, box, timestamp, bufferTransformer, carriersFound,
                 preStamp, otherVars>>

\* One iteration of the decoding loop: slice, decode (the decode function of
\* a segment is bytesToInt), push, advance; after the last segment the hook
\* loop begins.
DecodeSegment ==
  /\ pc = "decode"
  /\ IF maskIdx <= Len(bufferTransformer)
     THEN LET mask == bufferTransformer[maskIdx]
              maskedBytes == BufferSlice(buffer, currByte, currByte + mask.bytes)
          IN  /\ result' = Append(result, Measurement(mask.sensorId, bytesToInt(maskedBytes)))
              /\ currByte' = currByte + mask.bytes
              /\ maskIdx' = maskIdx + 1
              /\ trace' = Append(trace, "decode")
              /\ UNCHANGED pc
     ELSE /\ pc' = "hooks"
          /\ maskIdx' = 1
          /\ UNCHANGED <<result, currByte, trace>>
  /\ UNCHANGED <<buffer, box, timestamp, bufferTransformer, outcome,
                 carriersFound, preStamp, otherVars>>

\* A plausible slip: the hooks run from the last segment to the first.
RunHook_lastSegmentFirst ==
  /\ pc = "hooks"
  /\ IF maskIdx <= Len(bufferTransformer)
     THEN LET mask == bufferTransformer[Len(bufferTransformer) - maskIdx + 1]
          IN  /\ IF mask.onResult # <<>>
                 THEN /\ result' = applyValueFromMeasurement(mask.onResult[1], result)
                      /\ trace' = Append(trace, "hook")
                      /\ carriersFound' =
                           IF \E i \in 1..Len(result) :
                                result[i].sensor_id = mask.onResult[1].sensorId
                           THEN carriersFound + 1 ELSE carriersFound
                 ELSE UNCHANGED <<result, trace, carriersFound>>
              /\ maskIdx' = maskIdx + 1
              /\ UNCHANGED pc
     ELSE /\ pc' = "stamp"
          /\ UNCHANGED <<result, trace, carriersFound, maskIdx>>
  /\ UNCHANGED <<buffer, box, timestamp, bufferTransformer, currByte, outcome,
                 preStamp, otherVars>>

\* One iteration of the hook loop: if (typeof mask.onResult === 'function')
\* mask.onResult(result); after the last segment bufferToMeasurements returns.
RunHook ==
  /\ pc = "hooks"
  /\ IF maskIdx <= Len(bufferTransformer)
     THEN LET mask == bufferTransformer[maskIdx]
          IN  /\ IF mask.onResult # <<>>
                 THEN /\ result' = applyValueFromMeasurement(mask.onResult[1], result)
                      /\ trace' = Append(trace, "hook")
                      /\ carriersFound' =
                           IF \E i \in 1..Len(result) :
                                result[i].sensor_id = mask.onResult[1].sensorId
                           THEN carriersFound + 1 ELSE carriersFound
                 ELSE UNCHANGED <<result, trace, carriersFound>>
              /\ maskIdx' = maskIdx + 1
              /\ UNCHANGED pc
     ELSE /\ pc' = "stamp"
          /\ UNCHANGED <<result, trace, carriersFound, maskIdx>>
  /\ UNCHANGED <<buffer, box, timestamp, bufferTransformer, currByte, outcome,
                 preStamp, otherVars>>

\* if (timestamp && measurements.length && !measurements[0].createdAt) ...
StampTimestamp ==
  /\ pc = "stamp"
  /\ trace' = Append(trace, "stamp")
  /\ preStamp' = result
  /\ result' = IF ShouldStamp(timestamp, result) THEN StampAll(timestamp, result) ELSE result
  /\ pc' = "validate"
  /\ UNCHANGED <<buffer, box, timestamp, bufferTransformer, currByte, maskIdx,
                 outcome, carriersFound, otherVars>>

\* return transformAndValidateArray(measurements): the callback ends with
\* the call of the external validator and returns its promise.
Validate ==
  /\ pc = "validate"
  /\ trace' = Append(trace, "validate")
  /\ pc' = "validating"
  /\ UNCHANGED <<buffer, box, timestamp, bufferTransformer, result, currByte,
                 maskIdx, outcome, carriersFound, preStamp, otherVars>>

\* The promise of the validator settles, in a later turn: it resolves with
\* the validator's value for the measurements, or rejects with its error.
ValidatorPromiseSettles ==
  /\ pc = "validating"
  /\ \/ outcome' = Resolved(ValidatorValue(result))
     \/ outcome' = Rejected(ErrValidation, <<>>)
  /\ pc' = "done"
  /\ UNCHANGED <<buffer, box, timestamp, bufferTransformer, result, currByte,
                 maskIdx, trace, carriersFound, preStamp, otherVars>>

Next ==
  \/ CheckConfig
  \/ LookupProfile
  \/ BuildTransformer
  \/ CheckLength
  \/ DecodeSegment
  \/ RunHook
  \/ StampTimestamp
  \/ Validate
  \/ ValidatorPromiseSettles

Spec == Init /\ [][Next]_vars

\* The byte lengths of the segments of the box, summed without recursion.
RECURSIVE SumBytes(_)
SumBytes(bt) == IF bt = <<>> THEN 0 ELSE Head(bt).bytes + SumBytes(Tail(bt))

Count(seq, x) == Cardinality({i \in 1..Len(seq) : seq[i] = x})

\* C1: whenever the segment byte lengths sum to a value different from the
\* buffer length, decode fails with the length-mismatch error, whose detail
\* is the expected total length, and delivers no measurements; the check
\* precedes every decode function, onResult hook and the validator.
C1_LengthMismatchFailsFirst ==
  (Count(trace, "length") > 0 /\ SumBytes(box.segments) # Len(buffer)) =>
    /\ pc = "done"
    /\ outcome = Rejected(ErrLength, <<SumBytes(box.segments)>>)
    /\ result = <<>>
    /\ Count(trace, "decode") = 0
    /\ Count(trace, "hook") = 0
    /\ Count(trace, "validate") = 0

\* A length mismatch has been detected on a box with segments and hooks.
C1_Witness ==
  /\ pc = "done"
  /\ outcome.error = ErrLength
  /\ outcome.detail = <<3>>
  /\ Len(buffer) = 2
  /\ \E i \in 1..Len(box.segments) : box.segments[i].onResult # <<>>

\* The steps of a decode call in their fixed order.
StepRank(step) ==
  CASE step = "config" -> 1 [] step = "profile" -> 2 [] step = "build" -> 3
    [] step = "length" -> 4 [] step = "decode" -> 5 [] step = "hook" -> 6
    [] step = "stamp" -> 7 [] step = "validate" -> 8

SingleSteps == {"config", "profile", "build", "length", "stamp", "validate"}

\* C2: decode is a linear pipeline in the order configuration check, profile
\* lookup, transformer construction, length validation, segment decoding,
\* onResult hooks, timestamp stamping, validation; a failure at a step ends
\* the call (no later step, no retry, no measurements delivered); a missing
\* configuration is reported before an unsupported profile, and that before a
\* length mismatch. (A name that is no profile fails at the lookup, or, when
\* profiles inherits a property of that name, at the construction.)
C2_LinearPipeline ==
  /\ \A i \in 1..Len(trace) : \A j \in 1..Len(trace) :
       i < j => /\ StepRank(trace[i]) <= StepRank(trace[j])
                /\ trace[i] \in SingleSteps => trace[i] # trace[j]
  /\ \A i \in 1..Len(trace) :
       \A r \in 1..4 : StepRank(trace[i]) > r => \E j \in 1..(i - 1) : StepRank(trace[j]) = r
  /\ Count(trace, "hook") > 0 => Count(trace, "decode") = Len(box.segments)
  /\ Count(trace, "validate") > 0 => Count(trace, "stamp") = 1
  /\ Count(trace, "stamp") > 0 => Count(trace, "length") = 1
  /\ outcome.state = "pending" <=> pc # "done"
  /\ pc = "validating" => trace[Len(trace)] = "validate"
  /\ outcome.state = "resolved" =>
       outcome.measurements = ValidatorValue(result) /\ trace[Len(trace)] = "validate"
  /\ outcome.state = "rejected" => outcome.measurements = <<>>
  /\ pc = "done" =>
       IF box.integrations = <<>> \/ box.integrations[1].ttn = <<>>
       THEN outcome = Rejected(ErrNoConfig, <<>>) /\ trace = <<"config">>
       ELSE IF box.integrations[1].ttn[1].profile \notin profiles
       THEN IF box.integrations[1].ttn[1].profile \in InheritedNames
            THEN /\ outcome = Rejected(ErrTypeError, <<>>)
                 /\ trace = <<"config", "profile", "build">>
            ELSE /\ outcome = Rejected(ErrProfile, <<box.integrations[1].ttn[1].profile>>)
                 /\ trace = <<"config", "profile">>
       ELSE IF SumBytes(box.segments) # Len(buffer)
       THEN /\ outcome.error = ErrLength
            /\ trace = <<"config", "profile", "build", "length">>
       ELSE /\ trace[Len(trace)] = "validate"
            /\ outcome.state = "rejected" => outcome.error = ErrValidation

\* A box without configuration, whose (absent) profile could not be looked
\* up and whose segments do not fit the buffer: the missing configuration is
\* what is reported.
C2_Witness ==
  /\ pc = "done"
  /\ box.integrations = <<[ttn |-> <<>>]>>
  /\ SumBytes(box.segments) # Len(buffer)
  /\ outcome.error = ErrNoConfig

\* A profile name that profiles inherits, on a box whose segments do not fit
\* the buffer: the call fails at the construction of the transformer, before
\* the length is checked.
C2_WitnessInheritedName ==
  /\ pc = "done"
  /\ ProfileNameOf(box) = "constructor"
  /\ SumBytes(box.segments) # Len(buffer)
  /\ outcome.error = ErrTypeError
  /\ trace = <<"config", "profile", "build">>

\* A call that went through all eight steps and was rejected by the validator.
C2_WitnessFullRun ==
  /\ pc = "done"
  /\ outcome.error = ErrValidation
  /\ Count(trace, "decode") = 3
  /\ Count(trace, "hook") = 2

HooksOf(bt) == {i \in 1..Len(bt) : bt[i].onResult # <<>>}

\* C9: in a valid decode the measurements hold one entry per segment, in
\* segment order, before any hook runs; after the hooks their number is the
\* number of segments minus the number of hook invocations that found a
\* carrier (each invocation removes one entry if a carrier is present, else
\* none).
C9_CountOfMeasurements ==
  /\ (pc = "hooks" /\ Count(trace, "hook") = 0 /\ carriersFound = 0) =>
       /\ Len(result) = Len(box.segments)
       /\ \A i \in 1..Len(result) : result[i].sensor_id = box.segments[i].sensorId
  /\ (pc \in {"hooks", "stamp", "validate"} \/ outcome.state = "resolved"
        \/ outcome.error = ErrValidation) =>
       /\ Len(result) = Len(box.segments) - carriersFound
       /\ carriersFound <= Count(trace, "hook")
  /\ pc \in {"stamp", "validate"} =>
       Count(trace, "hook") = Cardinality(HooksOf(box.segments))

\* Three segments, two hook invocations of which only the first found a
\* carrier: two measurements remain.
C9_Witness ==
  /\ pc = "stamp"
  /\ Len(box.segments) = 3
  /\ Count(trace, "hook") = 2
  /\ carriersFound = 1
  /\ Len(result) = 2

\* The stamping step has been executed with a timestamp supplied.
Stamped == Count(trace, "stamp") > 0 /\ timestamp # <<>>

\* C10 as stated: with a timestamp supplied, after the stamping step every
\* measurement that had no createdAt carries the timestamp and every
\* measurement that already carried a createdAt keeps its own value
\* (a createdAt is taken as missing the way the code tests it: !createdAt).
C10_StampsOnlyMissing ==
  Stamped =>
    /\ Len(result) = Len(preStamp)
    /\ \A i \in 1..Len(preStamp) :
         IF preStamp[i].createdAt = <<>> \/ preStamp[i].createdAt = <<0>>
         THEN result[i].createdAt = timestamp
         ELSE result[i].createdAt = preStamp[i].createdAt

\* C10 (amended): with a timestamp supplied, when the first measurement has
\* no (truthy) createdAt, after the stamping step every measurement carries
\* the timestamp, those that had no createdAt and those that already carried
\* one alike; when the first measurement carries a createdAt, no measurement
\* is changed: each keeps its own createdAt and those without one stay
\* without.
C10_StampsAllOrNone ==
  Stamped =>
    /\ Len(result) = Len(preStamp)
    /\ \A i \in 1..Len(preStamp) :
         /\ result[i].sensor_id = preStamp[i].sensor_id
         /\ result[i].value = preStamp[i].value
         /\ result[i].createdAt =
              IF preStamp[1].createdAt = <<>> \/ preStamp[1].createdAt = <<0>>
              THEN timestamp
              ELSE preStamp[i].createdAt

\* Stamping overwrote a createdAt set by a propagation hook: the first
\* measurement had none, the second had the carrier's value.
C10_Witness ==
  /\ Stamped
  /\ Len(preStamp) = 2
  /\ preStamp[1].createdAt = <<>>
  /\ preStamp[2].createdAt = <<1>>
  /\ result[2].createdAt = timestamp

\* Stamping skipped: the first measurement carries a createdAt, the second
\* has none and stays without.
C10_WitnessSkipped ==
  /\ Stamped
  /\ Len(preStamp) = 2
  /\ preStamp[1].createdAt = <<1>>
  /\ preStamp[2].createdAt = <<>>
  /\ result[2].createdAt = <<>>

\* m carries a createdAt, as the code tests it (!m.createdAt is false).
CarriesCreatedAt(m) == m.createdAt # <<>> /\ m.createdAt # <<0>>

\* C11: the timestamp decision is made once per call, on the first
\* measurement only: with a timestamp supplied and a first measurement
\* without createdAt, every measurement of the result ends with createdAt
\* equal to the timestamp; without a timestamp, with an empty result or with
\* a first measurement that carries a createdAt, no createdAt is changed.
\* The result is the measurements decode hands to the validator, whose value
\* for them is what the call delivers.
C11_DecisionOnFirstMeasurement ==
  Count(trace, "stamp") > 0 =>
    /\ Len(result) = Len(preStamp)
    /\ IF timestamp # <<>> /\ preStamp # <<>> /\ ~CarriesCreatedAt(preStamp[1])
       THEN /\ \A i \in 1..Len(result) : result[i].createdAt = timestamp
            /\ outcome.state = "resolved" => outcome.measurements = ValidatorValue(result)
       ELSE /\ result = preStamp
            /\ outcome.state = "resolved" => outcome.measurements = ValidatorValue(preStamp)

\* A delivered result of two measurements, uniformly stamped, of which the
\* first had no createdAt and the last carried one of its own.
C11_Witness ==
  /\ outcome.state = "resolved"
  /\ timestamp = <<999>>
  /\ Len(preStamp) = 2
  /\ preStamp[1].createdAt = <<>>
  /\ CarriesCreatedAt(preStamp[2])
  /\ \A i \in 1..2 : result[i].createdAt = <<999>>

\* A delivered result left alone although a timestamp was supplied: the
\* first measurement carried a createdAt, the second none.
C11_WitnessFirstCarries ==
  /\ outcome.state = "resolved"
  /\ timestamp = <<999>>
  /\ Len(preStamp) = 2
  /\ CarriesCreatedAt(preStamp[1])
  /\ result[2].createdAt = <<>>

\* A delivered result without a timestamp supplied.
C11_WitnessNoTimestamp ==
  /\ outcome.state = "resolved"
  /\ timestamp = <<>>
  /\ Len(preStamp) = 2
  /\ result = preStamp

(***************************************************************************)
(* decodeBuffer as a function: the synchronous callback of                 *)
(* Promise.resolve().then(...) from its first statement to the call of the *)
(* validator, computed on the array res0 that `const result = []` creates. *)
(***************************************************************************)
\* The decoding loop of bufferToMeasurements from segment i, offset cb.
RECURSIVE DecodeLoop(_, _, _, _, _)
DecodeLoop(buf, bt, i, cb, res) ==
  IF i > Len(bt) THEN res
  ELSE DecodeLoop(buf, bt, i + 1, cb + bt[i].bytes,
         Append(res, Measurement(bt[i].sensorId,
                                 bytesToInt(BufferSlice(buf, cb, cb + bt[i].bytes)))))

\* The hook loop of bufferToMeasurements from segment i.
RECURSIVE HookLoop(_, _, _)
HookLoop(bt, i, res) ==
  IF i > Len(bt) THEN res
  ELSE HookLoop(bt, i + 1,
         IF bt[i].onResult # <<>>
         THEN applyValueFromMeasurement(bt[i].onResult[1], res) ELSE res)

\* bufferToMeasurements: the error thrown, or the array returned.
bufferToMeasurements(buf, bt, res0) ==
  IF MaskLength(bt, 1) # Len(buf)
  THEN Rejected(ErrLength, <<MaskLength(bt, 1)>>)
  ELSE Resolved(HookLoop(bt, 1, DecodeLoop(buf, bt, 1, 0, res0)))

\* The callback of decodeBuffer up to the validator: the error thrown, or the
\* measurements handed to transformAndValidateArray.
decodeBufferSync(buf, b, ts, res0) ==
  IF HasNoTtnConfig(b) THEN Rejected(ErrNoConfig, <<>>)
  ELSE IF ProfileLookup(ProfileNameOf(b)) = "undefined"
  THEN Rejected(ErrProfile, <<ProfileNameOf(b)>>)
  ELSE IF ProfileLookup(ProfileNameOf(b)) = "inherited" THEN Rejected(ErrTypeError, <<>>)
  ELSE LET r == bufferToMeasurements(buf, createBufferTransformer(b), res0)
       IN  IF r.state = "rejected" THEN r
           ELSE Resolved(IF ShouldStamp(ts, r.measurements)
                         THEN StampAll(ts, r.measurements) ELSE r.measurements)

\* The statement-by-statement actions of Spec compute what decodeBufferSync
\* computes.
StepsAgreeWithDecodeBufferSync ==
  /\ pc \in {"validate", "validating"} =>
       Resolved(result) = decodeBufferSync(buffer, box, timestamp, <<>>)
  /\ (pc = "done" /\ outcome.error \in {ErrNoConfig, ErrProfile, ErrTypeError, ErrLength}) =>
       outcome = decodeBufferSync(buffer, box, timestamp, <<>>)

(***************************************************************************)
(* SpecCalls: two decodeBuffer calls interleaved by the event loop, on a   *)
(* heap of arrays. An array is known by its reference, an index of arrays; *)
(* push, splice and the assignments of hooks and stamping change the array *)
(* behind the reference, so two calls holding one reference would see each *)
(* other's entries. The callback of a call runs statement by statement and *)
(* to its end before another callback starts (JavaScript runs a callback   *)
(* as a whole); the promise of the validator settles in a later turn, so   *)
(* the other call may run between the two. The validator is outside the    *)
(* repository: its promise resolves or rejects, as in Spec.                *)
(***************************************************************************)
CallIds == {1, 2}

CallBoxes ==
  LET T == [bytes |-> 1, sensorId |-> "t", onResult |-> <<>>]
      X == [bytes |-> 1, sensorId |-> "x", onResult |-> <<CarrierHook>>]
  IN  [integrations : {<<>>, <<[ttn |-> <<[profile |-> "lora-serialization"]>>]>>,
                       <<[ttn |-> <<[profile |-> "cayenne"]>>]>>,
                       <<[ttn |-> <<[profile |-> "constructor"]>>]>>},
       segments : {<<>>, <<T>>, <<X>>, <<T, X>>}]

CallInputs ==
  [buffer : {<<>>, <<1>>, <<1, 2>>}, box : CallBoxes, timestamp : Timestamps]

NewCall(in) ==
  [buffer |-> in.buffer, box |-> in.box, timestamp |-> in.timestamp,
   pc |-> "queued", ref |-> 0, bufferTransformer |-> <<>>, currByte |-> 0,
   maskIdx |-> 1, outcome |-> Pending]

InitCalls ==
  /\ \E in \in [CallIds -> CallInputs] : calls = [c \in CallIds |-> NewCall(in[c])]
  /\ arrays = <<>>
  /\ IdleBytes /\ IdleMatch /\ IdleHook /\ IdleDecode /\ IdleTtn

\* No callback is between its first and its last statement.
NoCallbackRunning ==
  \A d \in CallIds : calls[d].pc \in {"queued", "validating", "done"}

\* A plausible slip: result is a module-level array, created once and never
\* emptied, so every call holds the same reference.
NewArrayRef_moduleLevel(c) == 1

\* const result = [] : each call of bufferToMeasurements creates an array,
\* whose reference no other call holds.
NewArrayRef(c) == Len(arrays) + 1

\* The callback of call c starts: the checks of decodeBuffer, then
\* bufferToMeasurements creates its result array and checks the length.
BeginCallback(c) ==
  /\ calls[c].pc = "queued"
  /\ NoCallbackRunning
  /\ LET b == calls[c].box
         name == ProfileNameOf(b)
         bt == createBufferTransformer(b)
         ref == NewArrayRef(c)
     IN  IF HasNoTtnConfig(b)
         THEN /\ calls' = [calls EXCEPT ![c] =
                   [@ EXCEPT !.pc = "done", !.outcome = Rejected(ErrNoConfig, <<>>)]]
              /\ UNCHANGED arrays
         ELSE IF ProfileLookup(name) = "undefined"
         THEN /\ calls' = [calls EXCEPT ![c] =
                   [@ EXCEPT !.pc = "done", !.outcome = Rejected(ErrProfile, <<name>>)]]
              /\ UNCHANGED arrays
         ELSE IF ProfileLookup(name) = "inherited"
         THEN /\ calls' = [calls EXCEPT ![c] =
                   [@ EXCEPT !.pc = "done", !.outcome = Rejected(ErrTypeError, <<>>)]]
              /\ UNCHANGED arrays
         ELSE /\ arrays' = IF ref > Len(arrays) THEN Append(arrays, <<>>) ELSE arrays
              /\ calls' = [calls EXCEPT ![c] =
                   IF MaskLength(bt, 1) # Len(calls[c].buffer)
                   THEN [@ EXCEPT !.pc = "done", !.ref = ref,
                                  !.outcome = Rejected(ErrLength, <<MaskLength(bt, 1)>>)]
                   ELSE [@ EXCEPT !.pc = "decoding", !.ref = ref,
                                  !.bufferTransformer = bt]]
  /\ UNCHANGED <<bytesVars, matchVars, hookVars, decodeVars, ttnVars>>

\* One pass of the decoding loop of call c: result.push({...}) on its array.
CallDecodeSegment(c) ==
  /\ calls[c].pc = "decoding"
  /\ LET call == calls[c]
     IN  IF call.maskIdx <= Len(call.bufferTransformer)
         THEN LET mask == call.bufferTransformer[call.maskIdx]
                  maskedBytes == BufferSlice(call.buffer, call.currByte,
                                             call.currByte + mask.bytes)
              IN  /\ arrays' = [arrays EXCEPT ![call.ref] =
                        Append(@, Measurement(mask.sensorId, bytesToInt(maskedBytes)))]
                  /\ calls' = [calls EXCEPT ![c] =
                        [@ EXCEPT !.currByte = @ + mask.bytes, !.maskIdx = @ + 1]]
         ELSE /\ calls' = [calls EXCEPT ![c] = [@ EXCEPT !.pc = "hooks", !.maskIdx = 1]]
              /\ UNCHANGED arrays
  /\ UNCHANGED <<bytesVars, matchVars, hookVars, decodeVars, ttnVars>>

\* One pass of the hook loop of call c: mask.onResult(result) on its array.
CallRunHook(c) ==
  /\ calls[c].pc = "hooks"
  /\ LET call == calls[c]
     IN  IF call.maskIdx <= Len(call.bufferTransformer)
         THEN LET mask == call.bufferTransformer[call.maskIdx]
              IN  /\ arrays' = IF mask.onResult # <<>>
                                THEN [arrays EXCEPT ![call.ref] =
                                        applyValueFromMeasurement(mask.onResult[1], @)]
                                ELSE arrays
                  /\ calls' = [calls EXCEPT ![c] = [@ EXCEPT !.maskIdx = @ + 1]]
         ELSE /\ calls' = [calls EXCEPT ![c] = [@ EXCEPT !.pc = "stamping"]]
              /\ UNCHANGED arrays
  /\ UNCHANGED <<bytesVars, matchVars, hookVars, decodeVars, ttnVars>>

\* The end of the callback of call c: the measurements are stamped in place
\* and the array is handed to transformAndValidateArray.
CallStampAndValidate(c) ==
  /\ calls[c].pc = "stamping"
  /\ LET call == calls[c]
     IN  arrays' = IF ShouldStamp(call.timestamp, arrays[call.ref])
                   THEN [arrays EXCEPT ![call.ref] = StampAll(call.timestamp, @)]
                   ELSE arrays
  /\ calls' = [calls EXCEPT ![c] = [@ EXCEPT !.pc = "validating"]]
  /\ UNCHANGED <<bytesVars, matchVars, hookVars, decodeVars, ttnVars>>

\* The promise of transformAndValidateArray settles for call c: with the
\* validator's value for the array it was handed, or with its rejection.
CallValidatorSettles(c) ==
  /\ calls[c].pc = "validating"
  /\ NoCallbackRunning
  /\ \/ calls' = [calls EXCEPT ![c] =
          [@ EXCEPT !.pc = "done",
                    !.outcome = Resolved(ValidatorValue(arrays[calls[c].ref]))]]
     \/ calls' = [calls EXCEPT ![c] =
          [@ EXCEPT !.pc = "done", !.outcome = Rejected(ErrValidation, <<>>)]]
  /\ UNCHANGED <<arrays, bytesVars, matchVars, hookVars, decodeVars, ttnVars>>

NextCalls ==
  \/ \E c \in CallIds : BeginCallback(c)
  \/ \E c \in CallIds : CallDecodeSegment(c)
  \/ \E c \in CallIds : CallRunHook(c)
  \/ \E c \in CallIds : CallStampAndValidate(c)
  \/ \E c \in CallIds : CallValidatorSettles(c)

SpecCalls == InitCalls /\ [][NextCalls]_vars

SameInputs(c, d) ==
  /\ calls[c].buffer = calls[d].buffer
  /\ calls[c].box = calls[d].box
  /\ calls[c].timestamp = calls[d].timestamp

\* Call c has handed its array to the validator.
Handed(c) ==
  \/ calls[c].pc = "validating"
  \/ calls[c].outcome.state = "resolved"
  \/ calls[c].outcome.error = ErrValidation

\* Call c has failed in decode itself, before the validator was called.
FailedInDecode(c) ==
  calls[c].outcome.state = "rejected" /\ calls[c].outcome.error # ErrValidation

\* C12: decode keeps no state across calls. Each call works on an array of
\* its own, created by the call: no two calls hold one reference, and the
\* array of a call holds entries of its own segments only. What the call
\* hands to the validator, or the failure it ends with before that, is what
\* the same inputs give when the call runs alone, whatever the other call
\* did before or in between. So two calls with identical buffer, device
\* record and timestamp hand equal measurement sequences to the validator
\* or end with the same failure, and deliver the same sequence when the
\* validator resolves both. Whether the validator resolves is the
\* validator's matter and not decided by decode.
C12_DeterministicCalls ==
  \A c \in CallIds :
    LET call == calls[c]
        alone == decodeBufferSync(call.buffer, call.box, call.timestamp, <<>>)
    IN  /\ call.ref # 0 =>
             /\ call.ref \in 1..Len(arrays)
             /\ Len(arrays[call.ref]) <= Len(call.box.segments)
             /\ \A i \in 1..Len(arrays[call.ref]) :
                  \E j \in 1..Len(call.box.segments) :
                    arrays[call.ref][i].sensor_id = call.box.segments[j].sensorId
        /\ Handed(c) =>
             /\ alone = Resolved(arrays[call.ref])
             /\ call.outcome.state = "resolved" =>
                  call.outcome.measurements = ValidatorValue(alone.measurements)
        /\ FailedInDecode(c) => call.outcome = alone
        /\ (call.pc = "done" /\ alone.state = "rejected") => call.outcome = alone
        /\ \A d \in CallIds \ {c} :
             /\ call.ref # 0 => calls[d].ref # call.ref
             /\ SameInputs(c, d) =>
                  /\ (Handed(c) /\ Handed(d)) =>
                       arrays[call.ref] = arrays[calls[d].ref]
                  /\ (call.pc = "done" /\ calls[d].pc = "done") =>
                       \/ call.outcome = calls[d].outcome
                       \/ ErrValidation \in {call.outcome.error, calls[d].outcome.error}

\* Two calls with identical inputs and arrays of their own: the second has
\* delivered its one measurement, annotated by the hook of its second
\* segment, while the first still waits for the validator with an equal
\* array.
C12_Witness ==
  /\ SameInputs(1, 2)
  /\ calls[1].pc = "validating"
  /\ calls[2].outcome.state = "resolved"
  /\ calls[1].ref # calls[2].ref
  /\ Len(calls[1].box.segments) = 2
  /\ Len(arrays[calls[1].ref]) = 1
  /\ arrays[calls[1].ref][1].createdAt # <<>>
  /\ calls[2].outcome.measurements = ValidatorValue(arrays[calls[1].ref])

\* Two calls with different inputs, run one after the other: the first
\* failed on the length of its buffer, the second has handed its stamped
\* measurement to the validator.
C12_WitnessOtherCall ==
  /\ ~SameInputs(1, 2)
  /\ calls[1].outcome.error = ErrLength
  /\ calls[2].pc = "validating"
  /\ calls[2].ref = 2
  /\ Len(arrays[2]) = 1
  /\ arrays[2][1].createdAt = <<999>>

(***************************************************************************)
(* lib/ttn.js: the clients. A promise is a record; appClient and           *)
(* mqttClient hold the index of a promise in promises, or are undefined.   *)
(* An error is a record of its kind and the names its message holds.       *)
(***************************************************************************)
AppId == "app1"
BoxIds == {"a", "b"}

Err(kind, app, b, cause) == [kind |-> kind, app |-> app, box |-> b, cause |-> cause]
\* `handler:device:${appId}:${boxId} not found`
NotFound(app, b) == Err("not found", app, b, "")
Timeout == Err("timeout", "", "", "")
Unauthorized == Err("unauthorized", "", "", "")

\* What application(), request() and data() can reject with.
ClientErrors == {Unauthorized, NotFound(AppId, "a")}

NewPromise(kind) ==
  [kind |-> kind, state |-> "pending",
   stage |-> IF kind = "app" THEN "application" ELSE "data",
   appEui |-> <<>>, error |-> <<>>]

RejectWith(pr, e) == [pr EXCEPT !.state = "rejected", !.stage = "settled", !.error = <<e>>]

\* A plausible slip: a getter that tries again after a failed initialisation.
NeedsInit_retriesRejected(client) ==
  client = <<>> \/ promises[client[1]].state = "rejected"

\* appClient || ..., mqttClient || ... : a promise is an object, so the
\* right-hand side runs only while the variable is undefined.
NeedsInit(client) == client = <<>>

\* initApp: appClient is assigned the promise of the chain
\* application().then(request euis).catch(log, reject).
initApp(p) ==
  /\ p = Len(promises) + 1
  /\ promises' = Append(promises, NewPromise("app"))
  /\ appClient' = <<p>>
  /\ initRuns' = [initRuns EXCEPT !.app = @ + 1]

\* initMqtt: mqttClient is assigned the promise of data().then(register
\* the handlers).
initMqtt(p) ==
  /\ p = Len(promises) + 1
  /\ promises' = Append(promises, NewPromise("mqtt"))
  /\ mqttClient' = <<p>>
  /\ initRuns' = [initRuns EXCEPT !.mqtt = @ + 1]

\* getApp returns promise p.
getApp(p) ==
  IF NeedsInit(appClient) THEN initApp(p)
  ELSE p = appClient[1] /\ UNCHANGED <<appClient, promises, initRuns>>

\* getMqtt returns promise p.
getMqtt(p) ==
  IF NeedsInit(mqttClient) THEN initMqtt(p)
  ELSE p = mqttClient[1] /\ UNCHANGED <<mqttClient, promises, initRuns>>

\* The state of promise p when a getter returns it.
Seen(p) == IF p \in 1..Len(promises) THEN promises[p].state ELSE "pending"

\* Some caller calls getApp().
GetApp ==
  /\ Len(returned) < MaxGetterCalls
  /\ \E p \in 1..(Len(promises) + 1) :
       /\ getApp(p)
       /\ returned' = Append(returned, [getter |-> "app", promise |-> p, seen |-> Seen(p)])
  /\ UNCHANGED <<mqttClient, uplinkHandlers, decodingVars, deviceVars, uplinkVars>>

\* Some caller calls getMqtt().
GetMqtt ==
  /\ Len(returned) < MaxGetterCalls
  /\ \E p \in 1..(Len(promises) + 1) :
       /\ getMqtt(p)
       /\ returned' = Append(returned, [getter |-> "mqtt", promise |-> p, seen |-> Seen(p)])
  /\ UNCHANGED <<appClient, uplinkHandlers, decodingVars, deviceVars, uplinkVars>>

\* application(appId, key) settles: the chain goes on to request the EUIs,
\* or the catch handler logs the error and rejects.
ApplicationSettles(p) ==
  /\ promises[p].state = "pending" /\ promises[p].stage = "application"
  /\ \/ promises' = [promises EXCEPT ![p].stage = "euis"]
     \/ \E e \in ClientErrors : promises' = [promises EXCEPT ![p] = RejectWith(@, e)]
  /\ UNCHANGED <<appClient, mqttClient, initRuns, uplinkHandlers, returned,
                 decodingVars, deviceVars, uplinkVars>>

\* request(.../euis) settles: client.appEui = euis[0] and the client is the
\* value of the promise, or the catch handler logs the error and rejects.
RequestSettles(p) ==
  /\ promises[p].state = "pending" /\ promises[p].stage = "euis"
  /\ \/ \E euis \in {<<>>, <<"70B3D5">>} :
          promises' = [promises EXCEPT ![p].state = "resolved", ![p].stage = "settled",
                                       ![p].appEui = euis]
     \/ \E e \in ClientErrors : promises' = [promises EXCEPT ![p] = RejectWith(@, e)]
  /\ UNCHANGED <<appClient, mqttClient, initRuns, uplinkHandlers, returned,
                 decodingVars, deviceVars, uplinkVars>>

\* data(appId, key) settles: the handlers for 'error', 'connect' and
\* 'uplink' are registered on the client, or the promise rejects.
DataSettles(p) ==
  /\ promises[p].state = "pending" /\ promises[p].stage = "data"
  /\ \/ /\ promises' = [promises EXCEPT ![p].state = "resolved", ![p].stage = "settled"]
        /\ uplinkHandlers' = uplinkHandlers + 1
     \/ /\ \E e \in ClientErrors : promises' = [promises EXCEPT ![p] = RejectWith(@, e)]
        /\ UNCHANGED uplinkHandlers
  /\ UNCHANGED <<appClient, mqttClient, initRuns, returned, decodingVars, deviceVars, uplinkVars>>

InitClients ==
  /\ IdleClients /\ IdleDevice /\ IdleUplink
  /\ IdleBytes /\ IdleMatch /\ IdleHook /\ IdleDecode /\ IdleCalls

NextClients ==
  \/ GetApp
  \/ GetMqtt
  \/ \E p \in 1..Len(promises) : ApplicationSettles(p)
  \/ \E p \in 1..Len(promises) : RequestSettles(p)
  \/ \E p \in 1..Len(promises) : DataSettles(p)

SpecClients == InitClients /\ [][NextClients]_vars

(***************************************************************************)
(* lib/ttn.js: getOrRegisterDevice(boxId, dev_eui). The handler of the     *)
(* network (app.device, app.registerDevice) is the environment: a lookup   *)
(* finds the devices of registry, and any request to it may fail.          *)
(***************************************************************************)
Device(b) == [dev_id |-> b]

DevPending == [state |-> "pending", value |-> <<>>, error |-> <<>>]
DevResolved(v) == [state |-> "resolved", value |-> <<v>>, error |-> <<>>]
DevRejected(e) == [state |-> "rejected", value |-> <<>>, error |-> <<e>>]

\* new Error(`could not find a device for box ${boxId}: ${err.message}`)
CouldNotFind(b, err) == Err("could not find a device", err.app, b, err.kind)
\* app.appEui with app undefined
TypeError == Err("TypeError", "", "", "")
RegisterFailed == Err("register failed", "", "", "")

\* The failures of a lookup that are not the handler's answer for an unknown
\* device of this application.
OtherLookupErrors(b) ==
  {Timeout, NotFound("app2", b)} \cup {NotFound(AppId, o) : o \in BoxIds \ {b}}

\* What app.device(b) can settle with.
LookupOutcomes(b) ==
  (IF b \in registry THEN {DevResolved(Device(b))} ELSE {DevRejected(NotFound(AppId, b))})
    \cup {DevRejected(e) : e \in OtherLookupErrors(b)}

Event(step, out) == [step |-> step, outcome |-> out]

\* A plausible slip: any 'not found' message starts a registration.
IsNotFoundFor_anyDevice(err, b) == err.kind = "not found"

\* err.message === `handler:device:${cfg.ttn.appId}:${boxId} not found`
IsNotFoundFor(err, b) == err = NotFound(AppId, b)

\* key(n) is random: the keys it gives are kept as terms.
DeviceOpts(call) ==
  [devEui |-> IF call.dev_eui # <<>> /\ call.dev_eui[1] # ""
              THEN call.dev_eui[1] ELSE "00<key(7)>",
   appEui |-> promises[call.app[1]].appEui,
   disableFCntCheck |-> TRUE,
   appKey |-> "<key(16)>",
   nwkSKey |-> "<key(16)>",
   appSKey |-> "<key(16)>",
   devAddr |-> "2601<key(2)>"]

\* The catch handler of getOrRegisterDevice for error err: it throws for any
\* error but 'not found' of this device, and registers the device otherwise.
CatchLookup(call, err) ==
  IF ~IsNotFoundFor(err, call.boxId)
  THEN [call EXCEPT !.pc = "done", !.outcome = DevRejected(CouldNotFind(call.boxId, err))]
  ELSE IF call.app = <<>>
  THEN [call EXCEPT !.pc = "done", !.outcome = DevRejected(TypeError)]
  ELSE [call EXCEPT !.pc = "register",
          !.registerCalls = Append(@, [boxId |-> call.boxId, opts |-> DeviceOpts(call)])]

InitDevice ==
  /\ IdleClients /\ IdleUplink
  /\ IdleBytes /\ IdleMatch /\ IdleHook /\ IdleDecode /\ IdleCalls
  /\ registry \in SUBSET BoxIds
  /\ \E b \in BoxIds, eui \in {<<>>, <<"">>, <<"0011">>} :
       devCall = [boxId |-> b, dev_eui |-> eui, pc |-> "start", awaited |-> 0,
                  app |-> <<>>, events |-> <<>>, registerCalls |-> <<>>,
                  outcome |-> DevPending]

\* getOrRegisterDevice is called: getApp() returns the promise it waits for.
CallGetOrRegisterDevice ==
  /\ devCall.pc = "start"
  /\ \E p \in 1..(Len(promises) + 1) :
       /\ getApp(p)
       /\ returned' = Append(returned, [getter |-> "app", promise |-> p, seen |-> Seen(p)])
       /\ devCall' = [devCall EXCEPT !.pc = "awaitApp", !.awaited = p]
  /\ UNCHANGED <<mqttClient, uplinkHandlers, registry, decodingVars, uplinkVars>>

\* The promise of getApp() has settled: the then-callback keeps the app and
\* looks the device up, or the catch handler receives the error.
AppClientSettled ==
  /\ devCall.pc = "awaitApp"
  /\ LET pr == promises[devCall.awaited]
     IN  /\ pr.state # "pending"
         /\ devCall' =
              IF pr.state = "resolved"
              THEN [devCall EXCEPT !.pc = "lookup", !.app = <<devCall.awaited>>,
                                   !.events = Append(@, Event("app", DevResolved(Device(AppId))))]
              ELSE CatchLookup([devCall EXCEPT
                                  !.events = Append(@, Event("app", DevRejected(pr.error[1])))],
                               pr.error[1])
  /\ UNCHANGED <<clientVars, registry, decodingVars, uplinkVars>>

\* app.device(boxId) settles: its device is the result of the call, or the
\* catch handler receives the error.
LookupSettles ==
  /\ devCall.pc = "lookup"
  /\ \E out \in LookupOutcomes(devCall.boxId) :
       LET call == [devCall EXCEPT !.events = Append(@, Event("lookup", out))]
       IN  devCall' = IF out.state = "resolved"
                      THEN [call EXCEPT !.pc = "done", !.outcome = out]
                      ELSE CatchLookup(call, out.error[1])
  /\ UNCHANGED <<clientVars, registry, decodingVars, uplinkVars>>

\* app.registerDevice(boxId, deviceOpts) settles: the device exists and is
\* looked up again, or the call rejects with the error.
RegisterSettles ==
  /\ devCall.pc = "register"
  /\ \/ /\ registry' = registry \cup {devCall.boxId}
        /\ devCall' = [devCall EXCEPT !.pc = "relookup",
                         !.events = Append(@, Event("register", DevResolved(Device(devCall.boxId))))]
     \/ /\ UNCHANGED registry
        /\ devCall' = [devCall EXCEPT !.pc = "done",
                         !.outcome = DevRejected(RegisterFailed),
                         !.events = Append(@, Event("register", DevRejected(RegisterFailed)))]
  /\ UNCHANGED <<clientVars, decodingVars, uplinkVars>>

\* The second app.device(boxId) settles: its result is the result of the call.
RelookupSettles ==
  /\ devCall.pc = "relookup"
  /\ \E out \in LookupOutcomes(devCall.boxId) :
       devCall' = [devCall EXCEPT !.pc = "done", !.outcome = out,
                     !.events = Append(@, Event("lookup", out))]
  /\ UNCHANGED <<clientVars, registry, decodingVars, uplinkVars>>

NextDevice ==
  \/ CallGetOrRegisterDevice
  \/ \E p \in 1..Len(promises) : ApplicationSettles(p)
  \/ \E p \in 1..Len(promises) : RequestSettles(p)
  \/ AppClientSettled
  \/ LookupSettles
  \/ RegisterSettles
  \/ RelookupSettles

SpecDevice == InitDevice /\ [][NextDevice]_vars

\* The events of one step of the getOrRegisterDevice call, in order.
EventsOf(step) == SelectSeq(devCall.events, LAMBDA e : e.step = step)

AppFailed == EventsOf("app") # <<>> /\ EventsOf("app")[1].outcome.state = "rejected"
FirstLookupFound ==
  EventsOf("lookup") # <<>> /\ EventsOf("lookup")[1].outcome.state = "resolved"
FirstLookupNotFound ==
  /\ EventsOf("lookup") # <<>>
  /\ EventsOf("lookup")[1].outcome = DevRejected(NotFound(AppId, devCall.boxId))
FirstLookupFailedOtherwise ==
  /\ EventsOf("lookup") # <<>>
  /\ EventsOf("lookup")[1].outcome.state = "rejected"
  /\ ~FirstLookupNotFound

\* What the claim says of the cases other than 'not found'.
C13_OtherCases ==
  /\ Len(devCall.registerCalls) <= 1
  /\ devCall.registerCalls # <<>> => FirstLookupNotFound
  /\ devCall.outcome.state = "resolved" => devCall.outcome.value = <<Device(devCall.boxId)>>
  /\ devCall.pc = "done" =>
       /\ FirstLookupFound =>
            /\ devCall.registerCalls = <<>>
            /\ devCall.outcome = EventsOf("lookup")[1].outcome
       /\ (AppFailed \/ FirstLookupFailedOtherwise) =>
            /\ devCall.registerCalls = <<>>
            /\ devCall.outcome.state = "rejected"

\* C13 as stated: after a 'not found' of the first lookup exactly one
\* registerDevice(boxId, ...) call is made and it is followed by a second
\* lookup, whose result is the result of the call.
C13_RegistrationAlwaysFollowedByLookup ==
  /\ C13_OtherCases
  /\ (devCall.pc = "done" /\ FirstLookupNotFound) =>
       /\ Len(devCall.registerCalls) = 1
       /\ devCall.registerCalls[1].boxId = devCall.boxId
       /\ Len(EventsOf("lookup")) = 2
       /\ devCall.outcome = EventsOf("lookup")[2].outcome

\* C13 (amended): getOrRegisterDevice registers at most what is missing. A
\* successful first lookup is the result and nothing is registered; after
\* the handler's 'not found' for this application and boxId exactly one
\* registerDevice(boxId, ...) call is made: when it succeeds a second lookup
\* follows whose result is the result of the call, when it fails the call
\* rejects without a second lookup; any other failure rejects the call and
\* nothing is registered.
C13_RegistersOnlyWhatIsMissing ==
  /\ C13_OtherCases
  /\ (devCall.pc = "done" /\ FirstLookupNotFound) =>
       /\ Len(devCall.registerCalls) = 1
       /\ devCall.registerCalls[1].boxId = devCall.boxId
       /\ Len(EventsOf("register")) = 1
       /\ IF EventsOf("register")[1].outcome.state = "resolved"
          THEN /\ Len(EventsOf("lookup")) = 2
               /\ devCall.outcome = EventsOf("lookup")[2].outcome
          ELSE /\ Len(EventsOf("lookup")) = 1
               /\ devCall.outcome.state = "rejected"

\* The device was missing, its registration failed, the call is rejected.
C13_Witness ==
  /\ devCall.pc = "done"
  /\ FirstLookupNotFound
  /\ Len(devCall.registerCalls) = 1
  /\ EventsOf("register")[1].outcome.state = "rejected"
  /\ devCall.outcome = DevRejected(RegisterFailed)

\* The device was missing, was registered, and the second lookup found it.
C13_WitnessRegistered ==
  /\ devCall.pc = "done"
  /\ FirstLookupNotFound
  /\ devCall.boxId \in registry
  /\ devCall.outcome = DevResolved(Device(devCall.boxId))

\* The lookup failed with 'not found' of another device: nothing registered.
C13_WitnessOtherDevice ==
  /\ devCall.pc = "done"
  /\ FirstLookupFailedOtherwise
  /\ EventsOf("lookup")[1].outcome.error[1].kind = "not found"
  /\ devCall.outcome.state = "rejected"

\* The measurements as decoded from the buffer, before any hook.
Decoded == DecodeLoop(buffer, bufferTransformer, 1, 0, <<>>)

\* The decoded measurements after the hooks of the first n segments ran on
\* them one after the other, each on what the previous one left.
AfterHooks(n) == HookLoop(SubSeq(bufferTransformer, 1, n), 1, Decoded)

\* C14: every segment's onResult hook is invoked once per decode, only after
\* all segments are decoded and appended, in segment order, and on the one
\* result sequence, so that each hook finds what the hooks of the earlier
\* segments left; no hook runs when decoding failed.
C14_HooksAfterDecodingInOrder ==
  /\ pc \in {"config", "profile", "build", "length", "decode"} => Count(trace, "hook") = 0
  /\ (pc = "done" /\ outcome.error \in {ErrNoConfig, ErrProfile, ErrTypeError, ErrLength}) =>
       Count(trace, "hook") = 0
  /\ Count(trace, "hook") > 0 => Count(trace, "decode") = Len(bufferTransformer)
  /\ pc = "hooks" =>
       /\ Count(trace, "decode") = Len(bufferTransformer)
       /\ Count(trace, "hook") = Cardinality({i \in HooksOf(bufferTransformer) : i < maskIdx})
       /\ result = AfterHooks(maskIdx - 1)
  /\ pc = "stamp" =>
       /\ Count(trace, "hook") = Cardinality(HooksOf(bufferTransformer))
       /\ result = AfterHooks(Len(bufferTransformer))

\* Three segments decoded, the hooks of the first two have run: the second
\* hook found the result without the carrier the first one removed, and
\* removed the next.
C14_Witness ==
  /\ pc = "stamp"
  /\ Len(bufferTransformer) = 3
  /\ HooksOf(bufferTransformer) = {1, 2}
  /\ Count(trace, "hook") = 2
  /\ carriersFound = 2
  /\ Len(result) = 1
  /\ result[1].createdAt # <<>>

\* The buffer has the wrong length: no hook of the segments was invoked.
C14_WitnessFailed ==
  /\ pc = "done" /\ outcome.error = ErrLength
  /\ HooksOf(bufferTransformer) # {}
  /\ Count(trace, "hook") = 0

\* The offset of segment i: the sum of the byte lengths of the segments before.
OffsetOf(bt, i) == SumBytes(SubSeq(bt, 1, i - 1))

\* The bytes of buf at positions [o, o + n), counted from 0.
BytesAt(buf, o, n) == [k \in 1..n |-> buf[o + k]]

\* The segment that position k (from 0) of the buffer was passed to.
SegmentsReading(bt, k) ==
  {i \in 1..Len(bt) : OffsetOf(bt, i) <= k /\ k < OffsetOf(bt, i) + bt[i].bytes}

\* C15: slicing uses running offsets without overlap and without gaps: in a
\* valid decode segment i is decoded from the bytes [o_i, o_i + len_i), o_i
\* the sum of the lengths of the segments before it, every byte of the
\* buffer belongs to one segment, and the i-th measurement holds the sensor
\* id of segment i and the value decoded from its bytes.
C15_RunningOffsets ==
  pc = "decode" =>
    /\ Len(result) = maskIdx - 1
    /\ currByte = OffsetOf(bufferTransformer, maskIdx)
    /\ \A i \in 1..Len(result) :
         /\ OffsetOf(bufferTransformer, i) + bufferTransformer[i].bytes <= Len(buffer)
         /\ result[i] =
              Measurement(bufferTransformer[i].sensorId,
                          bytesToInt(BytesAt(buffer, OffsetOf(bufferTransformer, i),
                                             bufferTransformer[i].bytes)))
    /\ maskIdx > Len(bufferTransformer) =>
         /\ currByte = Len(buffer)
         /\ \A k \in 0..(Len(buffer) - 1) :
              Cardinality(SegmentsReading(bufferTransformer, k)) = 1

\* A segment of two bytes and one of one byte decoded from <<0, 1, 1>>: the
\* first value is 256, the second 1.
C15_Witness ==
  /\ pc = "decode"
  /\ buffer = <<0, 1, 1>>
  /\ Len(bufferTransformer) = 2
  /\ bufferTransformer[1].bytes = 2
  /\ Len(result) = 2
  /\ result[1].value = 256 /\ result[2].value = 1

\* ms without its first k entries of sensor id.
RECURSIVE RemoveFirstCarriers(_, _, _)
RemoveFirstCarriers(ms, id, k) ==
  IF k = 0 \/ ms = <<>> THEN ms
  ELSE IF Head(ms).sensor_id = id THEN RemoveFirstCarriers(Tail(ms), id, k - 1)
  ELSE <<Head(ms)>> \o RemoveFirstCarriers(Tail(ms), id, k)

\* One pass over orig from entry i: the carriers are dropped and every other
\* entry gets the attribute value of the nearest carrier before it (last),
\* none when there is no carrier before it.
RECURSIVE Propagated(_, _, _, _)
Propagated(orig, args, i, last) ==
  IF i > Len(orig) THEN <<>>
  ELSE IF orig[i].sensor_id = args.sensorId
  THEN Propagated(orig, args, i + 1, <<StampOf(args, orig, i)>>)
  ELSE <<[orig[i] EXCEPT ![args.property] = last]>> \o Propagated(orig, args, i + 1, last)

\* C17: the hook invoked n times in succession on a sequence with n carriers:
\* the k-th invocation removes the k-th carrier of the original sequence;
\* after the n-th no carrier is left, every entry that followed a carrier
\* has the attribute value of its nearest preceding carrier and the entries
\* before the first carrier have no attribute.
C17_RepeatedInvocationConsumesCarriers ==
  LET id == hookArgs.sensorId
      n == Cardinality(CarrierIdx(origMeasurements, id))
  IN  hookCalls <= n =>
        /\ Core(measurements) = Core(RemoveFirstCarriers(origMeasurements, id, hookCalls))
        /\ Cardinality(CarrierIdx(measurements, id)) = n - hookCalls
        /\ hookCalls = n =>
             /\ CarrierIdx(measurements, id) = {}
             /\ measurements = Propagated(origMeasurements, hookArgs, 1, <<>>)

\* Two invocations on [x, t:100, y, t:200, x]: the x before the first
\* carrier has no attribute, y has the value of the first carrier, the last
\* x that of the second.
C17_Witness ==
  /\ hookCalls = 2
  /\ Len(origMeasurements) = 5
  /\ CarrierIdx(origMeasurements, hookArgs.sensorId) = {2, 4}
  /\ origMeasurements[2].value # origMeasurements[4].value
  /\ Len(measurements) = 3
  /\ measurements[1][hookArgs.property] = <<>>
  /\ measurements[2][hookArgs.property] = <<StampOf(hookArgs, origMeasurements, 2)>>
  /\ measurements[3][hookArgs.property] = <<StampOf(hookArgs, origMeasurements, 4)>>

\* The promises created by the initialisation of one client.
PromisesOf(kind) == {p \in 1..Len(promises) : promises[p].kind = kind}

\* C16: for any sequence and interleaving of getApp() and getMqtt() calls
\* initApp and initMqtt each run at most once, every call of a getter returns
\* the promise its first call returned, also when the initialisation failed
\* (the rejected promise is returned again), and the 'uplink' handler is
\* registered at most once.
C16_ClientsInitialisedOnce ==
  /\ initRuns.app <= 1 /\ initRuns.mqtt <= 1
  /\ Cardinality(PromisesOf("app")) = initRuns.app
  /\ Cardinality(PromisesOf("mqtt")) = initRuns.mqtt
  /\ \A i, j \in 1..Len(returned) :
       returned[i].getter = returned[j].getter => returned[i].promise = returned[j].promise
  /\ \A i \in 1..Len(returned) :
       promises[returned[i].promise].kind = returned[i].getter
  /\ uplinkHandlers <= 1

\* getMqtt() was called again after its initialisation had failed and
\* returned the rejected promise; getApp() was called in between.
C16_Witness ==
  /\ Len(returned) = 3
  /\ returned[1].getter = "mqtt" /\ returned[1].seen = "pending"
  /\ returned[2].getter = "app"
  /\ returned[3].getter = "mqtt" /\ returned[3].seen = "rejected"
  /\ returned[3].promise = returned[1].promise
  /\ initRuns.mqtt = 1

\* getApp() called again after a failed initialisation.
C16_WitnessAppFailed ==
  /\ Len(returned) >= 2
  /\ returned[1].getter = "app"
  /\ returned[2].getter = "app" /\ returned[2].seen = "rejected"
  /\ initRuns.app = 1

\* getMqtt() called twice, the client connected: one 'uplink' handler.
C16_WitnessUplinkHandler ==
  /\ Len(SelectSeq(returned, LAMBDA r : r.getter = "mqtt")) >= 2
  /\ uplinkHandlers = 1

(***************************************************************************)
(* lib/ttn.js: onUplinkMessage(dev_id, message). Each invocation has its   *)
(* own matchBox; the callbacks of the invocations interleave. The database *)
(* (boxFromDevId), the decoder (decodeRequest) and the box                 *)
(* (saveMeasurementsArray) are the environment: each of their promises     *)
(* resolves, or rejects with a TTNError or with another error.             *)
(***************************************************************************)
UplinkIds == {1, 2}
DevIds == {"dev1", "dev2"}
Payloads == {"AQ==", "Ag=="}

\* The box the database holds for a device.
BoxOf(dev) == IF dev = "dev1" THEN "boxA" ELSE "boxB"

\* What decodeRequest(message, box) resolves with.
MeasurementsOf(payload, b) == [payload |-> payload, box |-> b]

\* The errors a step can reject with: instances of TTNError and others.
UplinkErrors(step) == {[step |-> step, isTTNError |-> t] : t \in BOOLEAN}

LogLine(level, h, event, b) == [level |-> level, handler |-> h, event |-> event, box |-> b]

NewHandler(dev, payload) ==
  [dev_id |-> dev, payload |-> payload, pc |-> "idle", matchBox |-> <<>>,
   failedAt |-> "", chain |-> "pending"]

\* A plausible slip: matchBox declared at module level, so a handler finds
\* the box that the latest matching callback of any message assigned.
MatchBoxAt_moduleLevel(h) ==
  LET matched == SelectSeq(logs, LAMBDA l : l.event = "matched box")
  IN  matched[Len(matched)].box[1]

\* matchBox, declared by let in the invocation: the box its own matching
\* callback assigned.
MatchBoxAt(h) == handlers[h].matchBox[1]

\* The catch handler: log.warn({ err }, 'could not handle uplink message')
\* for a TTNError, log.error({ err }), without a message, otherwise; the
\* chain ends fulfilled.
CatchUplink(h, err) ==
  /\ handlers' = [handlers EXCEPT ![h].pc = "done", ![h].failedAt = err.step,
                                  ![h].chain = "fulfilled"]
  /\ logs' = Append(logs, IF err.isTTNError
                          THEN LogLine("warn", h, "could not handle uplink message", <<>>)
                          ELSE LogLine("error", h, "", <<>>))
  /\ UNCHANGED saves

InitUplink ==
  /\ handlers \in [UplinkIds -> {NewHandler(d, pl) : d \in DevIds, pl \in Payloads}]
  /\ saves = <<>> /\ logs = <<>>
  /\ IdleClients /\ IdleDevice
  /\ IdleBytes /\ IdleMatch /\ IdleHook /\ IdleDecode /\ IdleCalls

\* The MQTT client delivers message h: boxFromDevId is called.
OnUplinkMessage(h) ==
  /\ handlers[h].pc = "idle"
  /\ handlers' = [handlers EXCEPT ![h].pc = "matching"]
  /\ UNCHANGED <<saves, logs, decodingVars, clientVars, deviceVars>>

\* boxFromDevId settles: the box is kept in matchBox and decodeRequest is
\* called, or the catch handler runs.
MatchSettles(h) ==
  /\ handlers[h].pc = "matching"
  /\ \/ /\ handlers' = [handlers EXCEPT ![h].pc = "decoding",
                                        ![h].matchBox = <<BoxOf(handlers[h].dev_id)>>]
        /\ logs' = Append(logs, LogLine("debug", h, "matched box",
                                        <<BoxOf(handlers[h].dev_id)>>))
        /\ UNCHANGED saves
     \/ \E err \in UplinkErrors("match") : CatchUplink(h, err)
  /\ UNCHANGED <<decodingVars, clientVars, deviceVars>>

\* decodeRequest settles: matchBox.saveMeasurementsArray(measurements) is
\* called, or the catch handler runs.
DecodeSettles(h) ==
  /\ handlers[h].pc = "decoding"
  /\ \/ /\ handlers' = [handlers EXCEPT ![h].pc = "saving"]
        /\ logs' = Append(logs, LogLine("debug", h, "resulting measurements", <<>>))
        /\ saves' = Append(saves,
             [handler |-> h, box |-> MatchBoxAt(h),
              measurements |-> MeasurementsOf(handlers[h].payload, handlers[h].matchBox[1])])
     \/ \E err \in UplinkErrors("decode") : CatchUplink(h, err)
  /\ UNCHANGED <<decodingVars, clientVars, deviceVars>>

\* saveMeasurementsArray settles: log.info, or the catch handler runs.
SaveSettles(h) ==
  /\ handlers[h].pc = "saving"
  /\ \/ /\ handlers' = [handlers EXCEPT ![h].pc = "done", ![h].chain = "fulfilled"]
        /\ logs' = Append(logs, LogLine("info", h, "saved measurements", <<>>))
        /\ UNCHANGED saves
     \/ \E err \in UplinkErrors("save") : CatchUplink(h, err)
  /\ UNCHANGED <<decodingVars, clientVars, deviceVars>>

NextUplink ==
  \E h \in UplinkIds :
    OnUplinkMessage(h) \/ MatchSettles(h) \/ DecodeSettles(h) \/ SaveSettles(h)

SpecUplink == InitUplink /\ [][NextUplink]_vars

SavesOf(h) == SelectSeq(saves, LAMBDA sv : sv.handler = h)
LogsOf(h, event) == SelectSeq(logs, LAMBDA l : l.handler = h /\ l.event = event)
ErrorLogsOf(h) == SelectSeq(logs, LAMBDA l : l.handler = h /\ l.level \in {"warn", "error"})

\* C18: onUplinkMessage stores measurements only after the box of the
\* message was matched and the message decoded, and on the box matched for
\* that message, whatever the interleaving of the handlers; a failure of
\* matching or decoding leaves saveMeasurementsArray uncalled, every error is
\* caught and logged once, and the chain of the handler ends fulfilled.
C18_StoresOnMatchedBoxOnly ==
  \A h \in UplinkIds :
    /\ Len(SavesOf(h)) <= 1
    /\ handlers[h].pc \in {"idle", "matching", "decoding"} => SavesOf(h) = <<>>
    /\ SavesOf(h) # <<>> =>
         /\ Len(LogsOf(h, "matched box")) = 1
         /\ Len(LogsOf(h, "resulting measurements")) = 1
         /\ SavesOf(h)[1].box = BoxOf(handlers[h].dev_id)
         /\ SavesOf(h)[1].measurements =
              MeasurementsOf(handlers[h].payload, BoxOf(handlers[h].dev_id))
    /\ handlers[h].chain # "rejected"
    /\ handlers[h].pc = "done" =>
         /\ handlers[h].chain = "fulfilled"
         /\ handlers[h].failedAt \in {"match", "decode"} => SavesOf(h) = <<>>
         /\ handlers[h].failedAt = "match" => LogsOf(h, "resulting measurements") = <<>>
         /\ Len(ErrorLogsOf(h)) = (IF handlers[h].failedAt = "" THEN 0 ELSE 1)
         /\ Len(LogsOf(h, "saved measurements")) =
              (IF handlers[h].failedAt = "" THEN 1 ELSE 0)

\* Two messages of different devices, interleaved: the box of message 2 was
\* matched after that of message 1 and before message 1 was decoded, and
\* both were stored on their own boxes.
C18_Witness ==
  /\ handlers[1].dev_id # handlers[2].dev_id
  /\ Len(logs) >= 4
  /\ logs[1].event = "matched box" /\ logs[1].handler = 1
  /\ logs[2].event = "matched box" /\ logs[2].handler = 2
  /\ logs[3].event = "resulting measurements" /\ logs[3].handler = 1
  /\ Len(saves) = 2
  /\ saves[1].box = "boxA" /\ saves[2].box = "boxB"
  /\ handlers[1].pc = "done" /\ handlers[2].pc = "done"

\* Decoding of one message failed while the other was stored: one save.
C18_WitnessDecodeFailed ==
  /\ handlers[1].pc = "done" /\ handlers[1].failedAt = "decode"
  /\ handlers[2].pc = "done" /\ handlers[2].failedAt = ""
  /\ Len(saves) = 1 /\ saves[1].handler = 2

====
